---- MODULE Spec2Model ----
(***************************************************************************)
(* A model of the sandboxed file storage and log store of the playwright   *)
(* server: the path-confinement resolver and category registry of          *)
(* src/utils/pathUtils.js and the bounded log store with rotation and      *)
(* listeners of src/utils/logUtils.js.                                     *)
(*                                                                         *)
(* Strings are sequences of one-character strings. Paths follow Node's     *)
(* POSIX `path` module (the separator is "/"; "\" is an ordinary           *)
(* character for path.normalize/resolve/join, and a separator only where   *)
(* pathUtils replaces it).                                                 *)
(***************************************************************************)
EXTENDS Integers, Sequences, FiniteSets, TLC

(***************************************************************************)
(* Bounds of the model.                                                    *)
(***************************************************************************)
\* Longest category string given to the resolver.
MaxCatLen == 2
\* Longest fileName string given to the resolver.
MaxNameLen == 4

\* The characters strings are made of: an ordinary character, the dot, the
\* two separators pathUtils knows, one character of FORBIDDEN_CHARS, and "x",
\* which spells the extension of DANGEROUS_EXTENSIONS.
Chars == {"a", ".", "/", "\\", "<", "x"}

Strings(n) == UNION {[1..k -> Chars] : k \in 0..n}

\* What a function returning string|null returns for null.
NULL == <<"null">>

(***************************************************************************)
(* String helpers (JavaScript String methods).                             *)
(***************************************************************************)
\* String.prototype.startsWith
startsWith(s, prefix) ==
  /\ Len(prefix) <= Len(s)
  /\ \A i \in 1..Len(prefix) : s[i] = prefix[i]

\* String.prototype.split on any character of seps: "" splits to [""].
RECURSIVE SplitFrom(_, _, _, _)
SplitFrom(s, i, cur, seps) ==
  IF i > Len(s) THEN <<cur>>
  ELSE IF s[i] \in seps THEN <<cur>> \o SplitFrom(s, i + 1, <<>>, seps)
  ELSE SplitFrom(s, i + 1, Append(cur, s[i]), seps)

Split(s, seps) == SplitFrom(s, 1, <<>>, seps)

\* Array.prototype.join("/")
RECURSIVE JoinSlash(_)
JoinSlash(comps) ==
  IF comps = <<>> THEN <<>>
  ELSE IF Len(comps) = 1 THEN comps[1]
  ELSE comps[1] \o <<"/">> \o JoinSlash(Tail(comps))

(***************************************************************************)
(* Node's path module, POSIX flavour.                                      *)
(***************************************************************************)
\* normalizeString: drops empty and "." segments and resolves ".." against
\* the segment before it; above the root ".." is kept only if allowAboveRoot.
RECURSIVE normalizeSegments(_, _, _)
normalizeSegments(comps, acc, allowAboveRoot) ==
  IF comps = <<>> THEN acc
  ELSE LET c == Head(comps)
           rest == Tail(comps)
       IN IF c = <<>> \/ c = <<".">> THEN normalizeSegments(rest, acc, allowAboveRoot)
          ELSE IF c = <<".", ".">>
            THEN IF acc # <<>> /\ acc[Len(acc)] # <<".", ".">>
                   THEN normalizeSegments(rest, SubSeq(acc, 1, Len(acc) - 1), allowAboveRoot)
                 ELSE IF allowAboveRoot
                   THEN normalizeSegments(rest, Append(acc, c), allowAboveRoot)
                 ELSE normalizeSegments(rest, acc, allowAboveRoot)
          ELSE normalizeSegments(rest, Append(acc, c), allowAboveRoot)

normalizeString(p, allowAboveRoot) ==
  JoinSlash(normalizeSegments(Split(p, {"/"}), <<>>, allowAboveRoot))

\* path.normalize
pathNormalize(p) ==
  IF p = <<>> THEN <<".">>
  ELSE LET isAbsolute == p[1] = "/"
           trailingSeparator == p[Len(p)] = "/"
           body == normalizeString(p, ~isAbsolute)
       IN IF body = <<>>
            THEN IF isAbsolute THEN <<"/">>
                 ELSE IF trailingSeparator THEN <<".", "/">> ELSE <<".">>
          ELSE LET b2 == IF trailingSeparator THEN body \o <<"/">> ELSE body
               IN IF isAbsolute THEN <<"/">> \o b2 ELSE b2

\* path.resolve(from, to) with an absolute `from`: the rightmost absolute
\* argument starts the result, empty arguments are skipped.
pathResolve(from, to) ==
  LET joined == IF to = <<>> THEN from \o <<"/">>
                ELSE IF to[1] = "/" THEN to \o <<"/">>
                ELSE from \o <<"/">> \o to \o <<"/">>
  IN <<"/">> \o normalizeString(joined, FALSE)

\* path.join(a, b): the non-empty arguments joined by "/" and normalized.
pathJoin(a, b) ==
  LET joined == IF a = <<>> THEN b
                ELSE IF b = <<>> THEN a
                ELSE a \o <<"/">> \o b
  IN pathNormalize(joined)

\* path.relative(from, to), both absolute.
RECURSIVE CommonPrefixLen(_, _)
CommonPrefixLen(xs, ys) ==
  IF xs = <<>> \/ ys = <<>> \/ Head(xs) # Head(ys) THEN 0
  ELSE 1 + CommonPrefixLen(Tail(xs), Tail(ys))

pathRelative(from, to) ==
  LET f == normalizeSegments(Split(pathResolve(from, <<>>), {"/"}), <<>>, FALSE)
      t == normalizeSegments(Split(pathResolve(to, <<>>), {"/"}), <<>>, FALSE)
      n == CommonPrefixLen(f, t)
      ups == [i \in 1..(Len(f) - n) |-> <<".", ".">>]
  IN JoinSlash(ups \o SubSeq(t, n + 1, Len(t)))

\* path.extname: from the last dot of the last segment, unless that dot is
\* the segment's first character or the segment is "..".
LastDot(s) ==
  IF \E i \in 1..Len(s) : s[i] = "."
    THEN CHOOSE i \in 1..Len(s) : s[i] = "." /\ \A j \in (i + 1)..Len(s) : s[j] # "."
  ELSE 0

pathExtname(p) ==
  LET segs == SelectSeq(Split(p, {"/"}), LAMBDA c : c # <<>>)
      base == IF segs = <<>> THEN <<>> ELSE segs[Len(segs)]
      d == LastDot(base)
  IN IF d <= 1 \/ base = <<".", ".">> THEN <<>>
     ELSE SubSeq(base, d, Len(base))

(***************************************************************************)
(* pathUtils.js                                                            *)
(***************************************************************************)
\* config.BASE_DIRECTORY: an absolute, normalized directory.
BASE_DIRECTORY == <<"/", "a">>

\* config.FORBIDDEN_CHARS (the control characters are represented by "<").
FORBIDDEN_CHARS == {"<"}

\* config.DANGEROUS_EXTENSIONS
DANGEROUS_EXTENSIONS == {<<".", "x">>}

\* A component passing every test but the one for forbidden characters.
isValidPathComponent_NoForbiddenTest(component) ==
  /\ component # <<>>
  /\ component # <<".">>
  /\ component # <<".", ".">>

\* A component passing every test but the one for the empty component.
isValidPathComponent_NoEmptyTest(component) ==
  /\ component # <<".">>
  /\ component # <<".", ".">>
  /\ \A i \in 1..Len(component) : component[i] \notin FORBIDDEN_CHARS

isValidPathComponent(component) ==
  /\ component # <<>>
  /\ component # <<".">>
  /\ component # <<".", ".">>
  /\ \A i \in 1..Len(component) : component[i] \notin FORBIDDEN_CHARS

validatePath(inputPath) ==
  /\ inputPath # <<>>
  /\ LET normalized == [i \in 1..Len(inputPath) |->
                          IF inputPath[i] = "\\" THEN "/" ELSE inputPath[i]]
         components == Split(normalized, {"/"})
     IN \A i \in 1..Len(components) : isValidPathComponent(components[i])

safeResolve(basePath, userPath) ==
  IF ~validatePath(userPath) THEN NULL
  ELSE LET normalizedPath == pathNormalize(userPath)
           resolvedPath == pathResolve(basePath, normalizedPath)
       IN IF ~startsWith(resolvedPath, basePath) THEN NULL ELSE resolvedPath

isAllowedExtension(filePath, allowDangerousExtensions) ==
  /\ filePath # <<>>
  /\ (allowDangerousExtensions \/ pathExtname(filePath) \notin DANGEROUS_EXTENSIONS)

\* safeDirs is config.SAFE_DIRECTORIES, a function from names to paths.
getSafeCategoryPath(safeDirs, category) ==
  IF category = <<>> THEN BASE_DIRECTORY
  ELSE IF category \in DOMAIN safeDirs THEN pathJoin(BASE_DIRECTORY, safeDirs[category])
  ELSE IF ~validatePath(category) THEN NULL
  ELSE safeResolve(BASE_DIRECTORY, category)

getSafeFilePath(safeDirs, category, fileName, allowDangerousExtensions) ==
  IF fileName = <<>> THEN NULL
  ELSE LET categoryPath == getSafeCategoryPath(safeDirs, category)
       IN IF categoryPath = NULL THEN NULL
          ELSE IF ~validatePath(fileName) THEN NULL
          ELSE IF ~allowDangerousExtensions /\ ~isAllowedExtension(fileName, FALSE) THEN NULL
          ELSE safeResolve(categoryPath, fileName)

getRelativePath(fullPath) ==
  IF fullPath = <<>> \/ ~startsWith(fullPath, BASE_DIRECTORY) THEN NULL
  ELSE pathRelative(BASE_DIRECTORY, fullPath)

\* The registry after registerSafeDirectory(name, dirPath); unchanged when the
\* call returns false.
registerSafeDirectory(safeDirs, name, dirPath) ==
  IF name = <<>> \/ ~validatePath(dirPath) THEN safeDirs
  ELSE [k \in DOMAIN safeDirs \cup {name} |-> IF k = name THEN dirPath ELSE safeDirs[k]]

\* String.prototype.replace with a pattern that has no g flag: the first
\* match only.
ReplaceFirst(s, set, by) ==
  IF \E i \in 1..Len(s) : s[i] \in set
    THEN LET k == CHOOSE i \in 1..Len(s) : s[i] \in set /\ \A j \in 1..(i - 1) : s[j] \notin set
         IN [i \in 1..Len(s) |-> IF i = k THEN by ELSE s[i]]
  ELSE s

\* /^[\s.]+|[\s.]+$/g removed: the leading and the trailing run of dots
\* and white space (the space stands for \s).
RECURSIVE StripLeadingDots(_)
StripLeadingDots(s) ==
  IF s # <<>> /\ Head(s) \in {".", " "} THEN StripLeadingDots(Tail(s)) ELSE s

RECURSIVE StripTrailingDots(_)
StripTrailingDots(s) ==
  IF s # <<>> /\ s[Len(s)] \in {".", " "} THEN StripTrailingDots(SubSeq(s, 1, Len(s) - 1)) ELSE s

sanitizeFilename(filename) ==
  IF filename = <<>> THEN <<>>
  ELSE LET r1 == ReplaceFirst(filename, FORBIDDEN_CHARS, "_")
           r2 == StripTrailingDots(StripLeadingDots(r1))
       IN [i \in 1..Len(r2) |-> IF r2[i] \in {"/", "\\"} THEN "_" ELSE r2[i]]

(***************************************************************************)
(* State.                                                                  *)
(***************************************************************************)
VARIABLES
  SAFE_DIRECTORIES,  \* pathUtils config.SAFE_DIRECTORIES: name -> relative path
  dirs,              \* the directories that exist on disk (absolute paths)
  op,                \* the resolver call made last: "none", "category", "file"
  category,          \* its category argument
  fileName,          \* its fileName argument
  result,            \* what it returned: a path or NULL
  CURRENT_LOG_LEVEL, \* logUtils config.CURRENT_LOG_LEVEL
  entries,           \* logBuffer.entries
  listeners,         \* logBuffer.listeners: the callbacks, in the array's order
  stack,             \* the addToBuffer dispatches in progress, innermost last
  procs,             \* the log calls past their dispatch, at an await of their disk part
  files,             \* the log directory: suffix (0: server.log) -> the lines of the file
  calls,             \* how many log calls were made
  accepted,          \* how many of them passed the level filter
  failures,          \* how many file system operations failed
  delivered,         \* history: the entries each callback was invoked with, in order
  subscribedAt,      \* history: `accepted` when the callback was added (-1: not yet)
  unsubscribedAt,    \* history: `accepted` when its remove function was called (-1: not yet)
  lastCall,          \* history: the log call made last
  lastDispatch,      \* history: the dispatch that ended last
  lastDone,          \* history: the log call that completed last, nothing on disk changed since
  rotations,         \* history: how many times the current file was archived
  clean,             \* history: no two log calls overlapped and no operation failed
  lastSetLevel,      \* history: the setLogLevel call made last
  lastQuery,         \* history: the getLogs call or live callback run last
  store,             \* the files below the base directory: absolute path -> bytes
  storeCalls,        \* how many fileUtils operations were called
  lastStoreOp,       \* history: the fileUtils call made last, with the file system before it
  savedBytes,        \* history: path -> the bytes of the Buffer saved there by the call
                     \* that addressed the path last
  streams,           \* the stream each listener feeds: none, an open or closed SSE
                     \* response, a Readable that is open, ended or destroyed
  saves,             \* the saveDataToFile calls in progress, each at one of its awaits
  done,              \* history: the saveDataToFile calls that returned, in that order
  leaked             \* history: how many file handles a returned call left open

pathVars == <<SAFE_DIRECTORIES, dirs, op, category, fileName, result>>

logVars == <<CURRENT_LOG_LEVEL, entries, listeners, stack, procs, files, calls, accepted,
             failures, delivered, subscribedAt, unsubscribedAt, lastCall, lastDispatch,
             lastDone, rotations, clean, lastSetLevel, lastQuery>>

storeVars == <<store, storeCalls, lastStoreOp, savedBytes>>

saveVars == <<saves, done, leaked>>

restVars == <<streams, saveVars>>

vars == <<pathVars, logVars, storeVars, restVars>>

(***************************************************************************)
(* The category registry and the resolver calls.                           *)
(***************************************************************************)
\* Longest number of folders created through createFolder.
MaxFolders == 1

\* The names the modules register when they are loaded, as
\* registerSafeDirectory(name, name).
LoadTimeCategories == {<<"a">>}

\* The arguments createFolder is called with.
FolderCategoryInputs == {<<"a">>, <<"x">>}
FolderNameInputs == {<<"a">>, <<".", ".">>, <<".", "a", ".">>, <<"a", "<", "<">>, <<"a", "/", "x">>}

\* A directory and the directories above it, as mkdir(recursive) creates them.
RECURSIVE PathPrefixes(_)
PathPrefixes(comps) ==
  IF comps = <<>> THEN {}
  ELSE {<<"/">> \o JoinSlash(comps)} \cup PathPrefixes(SubSeq(comps, 1, Len(comps) - 1))

WithAncestors(p) == PathPrefixes(normalizeSegments(Split(p, {"/"}), <<>>, FALSE))

RECURSIVE RegisterAll(_, _)
RegisterAll(safeDirs, names) ==
  IF names = {} THEN safeDirs
  ELSE LET n == CHOOSE x \in names : TRUE
       IN RegisterAll(registerSafeDirectory(safeDirs, n, n), names \ {n})

InitPathVars ==
  /\ SAFE_DIRECTORIES = RegisterAll(<<>>, LoadTimeCategories)
  /\ dirs = UNION {WithAncestors(pathJoin(BASE_DIRECTORY, n)) : n \in LoadTimeCategories}
  /\ op = "none"
  /\ category = <<>>
  /\ fileName = <<>>
  /\ result = NULL

\* fileUtils.createFolder(cat, folderName): the folder is made on disk and
\* its path relative to the base is registered as a category of that name.
CreateFolder(cat, folderName) ==
  /\ op = "none"
  /\ Cardinality(dirs) < Cardinality(LoadTimeCategories) + 1 + MaxFolders
  /\ cat # <<>> /\ folderName # <<>>
  /\ LET sanitizedFolderName == sanitizeFilename(folderName)
         parentPath == getSafeCategoryPath(SAFE_DIRECTORIES, cat)
         folderPath == pathJoin(parentPath, sanitizedFolderName)
         rel == getRelativePath(folderPath)
         relPath == IF rel = NULL \/ rel = <<>> THEN pathJoin(cat, sanitizedFolderName) ELSE rel
     IN /\ parentPath # NULL
        /\ folderPath \notin dirs
        /\ dirs' = dirs \cup WithAncestors(folderPath)
        /\ SAFE_DIRECTORIES' = registerSafeDirectory(SAFE_DIRECTORIES, relPath, relPath)
  /\ UNCHANGED <<op, category, fileName, result, logVars, storeVars, restVars>>

\* A call of getSafeCategoryPath(cat).
ResolveCategory(cat) ==
  /\ op = "none"
  /\ op' = "category"
  /\ category' = cat
  /\ fileName' = <<>>
  /\ result' = getSafeCategoryPath(SAFE_DIRECTORIES, cat)
  /\ UNCHANGED <<SAFE_DIRECTORIES, dirs, logVars, storeVars, restVars>>

\* A call of getSafeFilePath(cat, name) with the default options.
ResolveFile(cat, name) ==
  /\ op = "none"
  /\ op' = "file"
  /\ category' = cat
  /\ fileName' = name
  /\ result' = getSafeFilePath(SAFE_DIRECTORIES, cat, name, FALSE)
  /\ UNCHANGED <<SAFE_DIRECTORIES, dirs, logVars, storeVars, restVars>>

CategoryInputs == Strings(MaxCatLen) \cup DOMAIN SAFE_DIRECTORIES

\* The resolver call observed is the last step of a run: no call is open
\* (op = "none") when a step is taken.
DoCreateFolder ==
  op = "none" /\ \E c \in FolderCategoryInputs, f \in FolderNameInputs : CreateFolder(c, f)

DoResolveCategory ==
  op = "none" /\ \E c \in CategoryInputs : ResolveCategory(c)

DoResolveFile ==
  op = "none" /\ \E c \in CategoryInputs, f \in Strings(MaxNameLen) : ResolveFile(c, f)

NextPath == DoCreateFolder \/ DoResolveCategory \/ DoResolveFile

(***************************************************************************)
(* fileUtils.js: the file store. A file system is a record of the files    *)
(* (path -> bytes), the directories and the category registry; every       *)
(* operation is a function from a file system, its arguments and the file  *)
(* system call that fails (if any) to a file system and a result.          *)
(***************************************************************************)
\* config.FILE_SIZE_LIMIT (10MB in the source), scaled, in bytes.
FILE_SIZE_LIMIT == 3

\* path.dirname of an absolute normalized path below the root.
Dirname(p) ==
  LET k == CHOOSE i \in 1..Len(p) : p[i] = "/" /\ \A j \in (i + 1)..Len(p) : p[j] # "/"
  IN IF k = 1 THEN <<"/">> ELSE SubSeq(p, 1, k - 1)

IsFile(S, p) == p \in DOMAIN S.store

IsDir(S, p) == p \in S.dirs

\* An existence test that finds nothing.
fileExists_Never(S, p) == FALSE

\* fileExists: fs.access succeeds on files and directories.
fileExists(S, p) == IsFile(S, p) \/ IsDir(S, p)

WriteFile(S, p, bytes) ==
  [S EXCEPT !.store = [q \in DOMAIN S.store \cup {p} |-> IF q = p THEN bytes ELSE S.store[q]]]

RemoveFile(S, p) == [S EXCEPT !.store = [q \in DOMAIN S.store \ {p} |-> S.store[q]]]

\* The values passed as data: a Buffer, a string (of code points), or a
\* missing value.
BufferOf(bytes) == [kind |-> "buffer", value |-> bytes]

StringOf(chars) == [kind |-> "string", value |-> chars]

NoData == [kind |-> "none", value |-> <<>>]

\* JavaScript truthiness of the data argument: undefined, null and "" are
\* falsy, a Buffer (even an empty one) is truthy.
Truthy(data) == data.kind # "none" /\ ~(data.kind = "string" /\ data.value = <<>>)

\* Buffer.from(string, 'utf-8'): a code point below 128 is one byte, one
\* below 2048 is two, one below 65536 is three.
RECURSIVE Utf8Encode(_)
Utf8Encode(chars) ==
  IF chars = <<>> THEN <<>>
  ELSE (IF Head(chars) < 128 THEN <<Head(chars)>>
        ELSE IF Head(chars) < 2048
          THEN <<192 + (Head(chars) \div 64), 128 + (Head(chars) % 64)>>
        ELSE <<224 + (Head(chars) \div 4096), 128 + ((Head(chars) \div 64) % 64),
               128 + (Head(chars) % 64)>>)
       \o Utf8Encode(Tail(chars))

\* buffer.toString('utf-8'): an invalid sequence becomes U+FFFD.
RECURSIVE Utf8Decode(_)
Utf8Decode(bytes) ==
  IF bytes = <<>> THEN <<>>
  ELSE IF Head(bytes) < 128 THEN <<Head(bytes)>> \o Utf8Decode(Tail(bytes))
  ELSE IF /\ Head(bytes) \in 194..195
          /\ Len(bytes) >= 2
          /\ bytes[2] \in 128..191
         THEN <<(Head(bytes) - 192) * 64 + (bytes[2] - 128)>> \o Utf8Decode(Tail(Tail(bytes)))
  ELSE <<65533>> \o Utf8Decode(Tail(bytes))

\* A save that writes every data as text.
contentToWrite_AsText(data) == Utf8Encode(IF data.kind = "buffer" THEN Utf8Decode(data.value)
                                          ELSE data.value)

\* saveDataToFile, contentToWrite as the bytes that reach the file.
contentToWrite(data) == IF data.kind = "buffer" THEN data.value ELSE Utf8Encode(data.value)

\* The results of the operations.
Success ==
  [success |-> TRUE, partialSuccess |-> FALSE, code |-> 0, threw |-> FALSE,
   content |-> NoData, files |-> {}, path |-> NULL, sourcePath |-> NULL,
   targetPath |-> NULL]

Failure(code) == [Success EXCEPT !.success = FALSE, !.code = code]

\* validateParams: the parameters are given as a set of "is falsy" flags.
validateParams(missing) == IF TRUE \in missing THEN Failure(400) ELSE Success

\* An operation whose catch rethrows.
InternalError_Rethrown(S) == [fs |-> S, res |-> [Failure(500) EXCEPT !.threw = TRUE]]

\* The catch of every operation: the error is reported on the console and
\* { error, code: 500 } is returned.
InternalError(S) == [fs |-> S, res |-> Failure(500)]

Returns(S, res) == [fs |-> S, res |-> res]

\* fs.mkdir(p, { recursive: true }): fails when a file is in the way.
CanMkdir(S, p) == \A q \in WithAncestors(p) : ~IsFile(S, q)

Mkdirp(S, p) == [S EXCEPT !.dirs = @ \cup WithAncestors(p)]

\* ensureDirectoryExists: EEXIST is swallowed, any other error is thrown
\* (ok is FALSE).
ensureDirectoryExists(S, p, fail) ==
  IF fail = "mkdir" THEN [ok |-> FALSE, fs |-> S]
  ELSE IF IsFile(S, p) THEN [ok |-> TRUE, fs |-> S]
  ELSE IF ~CanMkdir(S, p) THEN [ok |-> FALSE, fs |-> S]
  ELSE [ok |-> TRUE, fs |-> Mkdirp(S, p)]

\* fs.open(p, flags) succeeds: p is no directory, its parent is a directory,
\* and with 'r' the file is there.
CanOpen(S, p, flags) ==
  /\ ~IsDir(S, p)
  /\ IsDir(S, Dirname(p))
  /\ flags = "r" => IsFile(S, p)

\* The file system after a successful fs.open(p, flags).
Opened(S, p, flags) ==
  IF flags = "w" \/ (flags = "a" /\ ~IsFile(S, p)) THEN WriteFile(S, p, <<>>) ELSE S

\* relativePath: pathUtils.getRelativePath(filePath) || path.join(category, fileName)
relativePathOf(filePath, cat, name) ==
  LET rel == getRelativePath(filePath)
  IN IF rel = NULL \/ rel = <<>> THEN pathJoin(cat, name) ELSE rel

\* getFile(category, fileName, { raw, allowDangerousExtensions })
getFile(S, cat, name, raw, allowDangerousExtensions, fail) ==
  IF ~validateParams({cat = <<>>, name = <<>>}).success
    THEN Returns(S, validateParams({cat = <<>>, name = <<>>}))
  ELSE LET filePath == getSafeFilePath(S.safeDirs, cat, name, allowDangerousExtensions)
       IN IF filePath = NULL THEN Returns(S, Failure(400))
          ELSE IF ~fileExists(S, filePath) THEN Returns(S, Failure(404))
          ELSE IF fail = "stat" THEN InternalError(S)
          ELSE IF IsFile(S, filePath) /\ Len(S.store[filePath]) > FILE_SIZE_LIMIT
                 THEN Returns(S, Failure(413))
          ELSE IF fail = "read" \/ IsDir(S, filePath) THEN InternalError(S)
          ELSE Returns(S, [Success EXCEPT
                 !.content = IF raw THEN BufferOf(S.store[filePath])
                             ELSE StringOf(Utf8Decode(S.store[filePath])),
                 !.path = relativePathOf(filePath, cat, name)])

\* The write of saveDataToFile, from fs.open on: the handle is opened, the
\* content written, and the handle closed in the finally.
writeContent(S, filePath, content, append, isBuffer, fail) ==
  IF append /\ isBuffer
    THEN \* read the existing content, then write the combined content
      IF fail = "open" \/ ~CanOpen(S, filePath, "r") THEN InternalError(S)
      ELSE IF fail \in {"read", "close"} THEN InternalError(S)
      ELSE IF fail = "write" THEN InternalError(Opened(S, filePath, "w"))
      ELSE Returns(WriteFile(S, filePath, S.store[filePath] \o content), Success)
  ELSE LET flags == IF append THEN "a" ELSE "w"
       IN IF fail = "open" \/ ~CanOpen(S, filePath, flags) THEN InternalError(S)
          ELSE IF fail = "write" THEN InternalError(Opened(S, filePath, flags))
          ELSE Returns(WriteFile(S, filePath, Opened(S, filePath, flags).store[filePath] \o content),
                       Success)

\* saveDataToFile(category, fileName, data, { overwrite, append, sanitizeFilename }):
\* overwriteFalse is options.overwrite === false.
saveDataToFile(S, cat, name, data, overwriteFalse, append, sanitize, fail) ==
  IF ~validateParams({cat = <<>>, name = <<>>, ~Truthy(data)}).success
    THEN Returns(S, validateParams({cat = <<>>, name = <<>>, ~Truthy(data)}))
  ELSE LET finalFileName == IF sanitize THEN sanitizeFilename(name) ELSE name
           dirPath == getSafeCategoryPath(S.safeDirs, cat)
           filePath == getSafeFilePath(S.safeDirs, cat, finalFileName, FALSE)
       IN IF dirPath = NULL THEN Returns(S, Failure(400))
          ELSE IF filePath = NULL THEN Returns(S, Failure(400))
          ELSE LET exists == fileExists(S, filePath)
                   ensured == ensureDirectoryExists(S, dirPath, fail)
                   content == contentToWrite(data)
               IN IF exists /\ overwriteFalse /\ ~append THEN Returns(S, Failure(409))
                  ELSE IF ~ensured.ok THEN InternalError(S)
                  ELSE IF Len(content) > FILE_SIZE_LIMIT THEN Returns(ensured.fs, Failure(413))
                  ELSE IF append /\ exists /\ fail = "stat" THEN InternalError(ensured.fs)
                  ELSE IF /\ append /\ exists /\ IsFile(S, filePath)
                          /\ Len(S.store[filePath]) + Len(content) > FILE_SIZE_LIMIT
                         THEN Returns(ensured.fs, Failure(413))
                  ELSE LET written == writeContent(ensured.fs, filePath, content, append,
                                                   data.kind = "buffer", fail)
                       IN IF written.res.success
                            THEN Returns(written.fs, [Success EXCEPT
                                   !.path = relativePathOf(filePath, cat, finalFileName)])
                          ELSE written

\* deleteFile(category, fileName)
deleteFile(S, cat, name, fail) ==
  IF ~validateParams({cat = <<>>, name = <<>>}).success
    THEN Returns(S, validateParams({cat = <<>>, name = <<>>}))
  ELSE LET filePath == getSafeFilePath(S.safeDirs, cat, name, FALSE)
       IN IF filePath = NULL THEN Returns(S, Failure(400))
          ELSE IF ~fileExists(S, filePath) THEN Returns(S, Failure(404))
          ELSE IF fail = "unlink" \/ IsDir(S, filePath) THEN InternalError(S)
          ELSE Returns(RemoveFile(S, filePath),
                       [Success EXCEPT !.path = relativePathOf(filePath, cat, name)])

\* fs.readdir: the names of the files and directories directly in dirPath.
Readdir(S, dirPath) ==
  {SubSeq(q, Len(Dirname(q)) + (IF Dirname(q) = <<"/">> THEN 1 ELSE 2), Len(q)) :
     q \in {r \in DOMAIN S.store \cup S.dirs : r # dirPath /\ Dirname(r) = dirPath}}

\* getFiles(category): the names listed are those getSafeFilePath accepts.
getFiles(S, cat, fail) ==
  LET dirPath == getSafeCategoryPath(S.safeDirs, cat)
  IN IF dirPath = NULL THEN Returns(S, Failure(400))
     ELSE IF ~fileExists(S, dirPath) THEN Returns(S, Failure(404))
     ELSE IF fail = "readdir" \/ IsFile(S, dirPath) THEN InternalError(S)
     ELSE Returns(S, [Success EXCEPT
            !.files = {n \in Readdir(S, dirPath) :
                         getSafeFilePath(S.safeDirs, cat, n, FALSE) # NULL},
            !.path = cat])

\* createFolder(category, folderName)
createFolder(S, cat, folderName, fail) ==
  IF ~validateParams({cat = <<>>, folderName = <<>>}).success
    THEN Returns(S, validateParams({cat = <<>>, folderName = <<>>}))
  ELSE LET sanitizedFolderName == sanitizeFilename(folderName)
           parentPath == getSafeCategoryPath(S.safeDirs, cat)
           folderPath == pathJoin(parentPath, sanitizedFolderName)
           relPath == relativePathOf(folderPath, cat, sanitizedFolderName)
       IN IF parentPath = NULL THEN Returns(S, Failure(400))
          ELSE IF fileExists(S, folderPath) THEN Returns(S, Failure(409))
          ELSE IF fail = "mkdir" \/ ~CanMkdir(S, folderPath) THEN InternalError(S)
          ELSE Returns([Mkdirp(S, folderPath) EXCEPT
                          !.safeDirs = registerSafeDirectory(@, relPath, relPath)],
                       [Success EXCEPT !.path = relPath])

\* fs.copyFile(sourcePath, targetPath) succeeds.
CanCopy(S, sourcePath, targetPath) ==
  /\ IsFile(S, sourcePath)
  /\ ~IsDir(S, targetPath)
  /\ IsDir(S, Dirname(targetPath))

\* copyFile(sourceCategory, sourceFileName, targetCategory, targetFileName,
\* { overwrite }); a missing targetFileName is <<>>, noOverwrite is
\* options.overwrite === false. truncates tells what
\* fs.copyFile does to a file copied onto itself: it leaves it alone, or it
\* truncates it before it reads it.
copyFile(S, sourceCategory, sourceFileName, targetCategory, targetFileName, noOverwrite, fail, truncates) ==
  IF ~validateParams({sourceCategory = <<>>, sourceFileName = <<>>, targetCategory = <<>>}).success
    THEN Returns(S, validateParams({sourceCategory = <<>>, sourceFileName = <<>>,
                                    targetCategory = <<>>}))
  ELSE LET finalTargetFileName == IF targetFileName = <<>> THEN sourceFileName
                                  ELSE targetFileName
           sourcePath == getSafeFilePath(S.safeDirs, sourceCategory, sourceFileName, FALSE)
           targetDirPath == getSafeCategoryPath(S.safeDirs, targetCategory)
           targetPath == getSafeFilePath(S.safeDirs, targetCategory, finalTargetFileName, FALSE)
       IN IF sourcePath = NULL THEN Returns(S, Failure(400))
          ELSE IF targetDirPath = NULL THEN Returns(S, Failure(400))
          ELSE IF targetPath = NULL THEN Returns(S, Failure(400))
          ELSE IF ~fileExists(S, sourcePath) THEN Returns(S, Failure(404))
          ELSE IF fileExists(S, targetPath) /\ noOverwrite THEN Returns(S, Failure(409))
          ELSE LET ensured == ensureDirectoryExists(S, targetDirPath, fail)
               IN IF ~ensured.ok THEN InternalError(S)
                  ELSE IF fail = "copy" \/ ~CanCopy(ensured.fs, sourcePath, targetPath)
                         THEN InternalError(ensured.fs)
                  ELSE Returns(
                         WriteFile(ensured.fs, targetPath,
                                   IF sourcePath = targetPath /\ truncates THEN <<>>
                                   ELSE S.store[sourcePath]),
                         [Success EXCEPT
                            !.sourcePath = relativePathOf(sourcePath, sourceCategory,
                                                          sourceFileName),
                            !.targetPath = relativePathOf(targetPath, targetCategory,
                                                          finalTargetFileName)])

\* moveFile after a copy that succeeded: deleteFile of the source.
moveFileDelete(copyResult, deleteResult) ==
  IF ~deleteResult.res.success
    THEN Returns(deleteResult.fs,
                 [Success EXCEPT !.partialSuccess = TRUE,
                                 !.sourcePath = copyResult.res.sourcePath,
                                 !.targetPath = copyResult.res.targetPath])
  ELSE Returns(deleteResult.fs,
               [Success EXCEPT !.sourcePath = copyResult.res.sourcePath,
                               !.targetPath = copyResult.res.targetPath])

\* moveFile after its copyFile returned copyResult.
moveFileCopied(copyResult, sourceCategory, sourceFileName, fail) ==
  IF ~copyResult.res.success THEN copyResult
  ELSE CHOOSE r \in {moveFileDelete(copyResult, deleteResult) :
                       deleteResult \in {deleteFile(copyResult.fs, sourceCategory,
                                                    sourceFileName, fail)}} : TRUE

\* moveFile: copyFile, then deleteFile of the source.
moveFile(S, sourceCategory, sourceFileName, targetCategory, targetFileName, noOverwrite, fail, truncates) ==
  CHOOSE r \in {moveFileCopied(copyResult, sourceCategory, sourceFileName, fail) :
                  copyResult \in {copyFile(S, sourceCategory, sourceFileName, targetCategory,
                                           targetFileName, noOverwrite, fail, truncates)}} :
    TRUE

(***************************************************************************)
(* The file store as a state machine: every call of a fileUtils operation  *)
(* is one step, from its first line to its return.                         *)
(***************************************************************************)
\* Most fileUtils calls made in a run.
MaxStoreOps == 2

\* The file system the operations work on.
FileSystem == [store |-> store, dirs |-> dirs, safeDirs |-> SAFE_DIRECTORIES]

\* The arguments the operations are called with.
StoreCategoryInputs == {<<>>, <<"a">>, <<"x">>} \cup DOMAIN SAFE_DIRECTORIES

StoreNameInputs ==
  {<<>>, <<"a">>, <<"x">>, <<".", ".">>, <<"a", ".", "x">>, <<"a", "<">>, <<"x", "/", "a">>}

StoreTargetInputs == {<<>>, <<"a">>, <<"x">>}

\* The options of saveDataToFile, as <<overwrite === false, append, sanitizeFilename>>.
SaveOptionInputs ==
  {<<FALSE, FALSE, FALSE>>, <<TRUE, FALSE, FALSE>>, <<FALSE, TRUE, FALSE>>,
   <<TRUE, TRUE, FALSE>>, <<FALSE, FALSE, TRUE>>}

StoreFolderInputs == {<<>>, <<"x">>, <<"x", "<", "<">>}

StoreDataInputs ==
  {NoData, StringOf(<<>>), StringOf(<<233>>), BufferOf(<<>>), BufferOf(<<200>>),
   BufferOf(<<1, 2, 3, 4>>)}

\* A call record: the operation, its arguments, the file system call that
\* fails, the file system before the call and the value returned.
StoreCall(name) ==
  [name |-> name, cat |-> <<>>, file |-> <<>>, tcat |-> <<>>, tfile |-> <<>>,
   data |-> NoData, overwriteFalse |-> FALSE, append |-> FALSE, sanitize |-> FALSE,
   raw |-> FALSE, dangerous |-> FALSE, fail |-> "none", truncates |-> FALSE,
   before |-> FileSystem, res |-> Success]

InitStoreVars ==
  /\ store = <<>>
  /\ storeCalls = 0
  /\ lastStoreOp = StoreCall("none")
  /\ savedBytes = <<>>

\* A call can be made: none was recorded yet.
StoreIdle == lastStoreOp.name = "none" /\ storeCalls < MaxStoreOps

\* The step of a call: out is what the operation computed, touched the paths
\* the call addresses for writing, saved the path and bytes of a successful
\* save of a Buffer that did not append (a set of at most one pair). The call recorded
\* in lastStoreOp is the last step of a run.
StoreStep(call, out, touched, saved) ==
  /\ storeCalls' = storeCalls + 1
  /\ store' = out.fs.store
  /\ dirs' = out.fs.dirs
  /\ SAFE_DIRECTORIES' = out.fs.safeDirs
  /\ \E observed \in BOOLEAN :
       lastStoreOp' = IF observed THEN [call EXCEPT !.res = out.res] ELSE lastStoreOp
  /\ savedBytes' = [q \in (DOMAIN savedBytes \ touched) \cup {pb[1] : pb \in saved} |->
                      IF \E pb \in saved : pb[1] = q
                        THEN (CHOOSE pb \in saved : pb[1] = q)[2]
                      ELSE savedBytes[q]]
  /\ UNCHANGED <<op, category, fileName, result, logVars, restVars>>

\* The paths a call addresses, NULL left out.
Addressed(paths) == paths \ {NULL}

GetFiles ==
  StoreIdle /\
  \E c \in StoreCategoryInputs, fail \in {"none", "readdir"} :
  \E out \in {getFiles(FileSystem, c, fail)} :
    StoreStep([StoreCall("getFiles") EXCEPT !.cat = c, !.fail = fail], out, {}, {})

GetFile ==
  StoreIdle /\
  \E c \in StoreCategoryInputs, f \in StoreNameInputs, raw \in BOOLEAN,
     dangerous \in BOOLEAN, fail \in {"none", "stat", "read"} :
  \E out \in {getFile(FileSystem, c, f, raw, dangerous, fail)} :
    StoreStep([StoreCall("getFile") EXCEPT !.cat = c, !.file = f, !.raw = raw,
                                           !.dangerous = dangerous, !.fail = fail],
              out, {}, {})

SaveDataToFile ==
  StoreIdle /\
  \E c \in StoreCategoryInputs, f \in StoreNameInputs, data \in StoreDataInputs,
     o \in SaveOptionInputs,
     fail \in {"none", "mkdir", "stat", "open", "write", "close"} :
  \E out \in {saveDataToFile(FileSystem, c, f, data, o[1], o[2], o[3], fail)},
     filePath \in {getSafeFilePath(SAFE_DIRECTORIES, c,
                                   IF o[3] THEN sanitizeFilename(f) ELSE f, FALSE)} :
    LET overwriteFalse == o[1]
        append == o[2]
        sanitize == o[3]
    IN StoreStep([StoreCall("saveDataToFile") EXCEPT
                    !.cat = c, !.file = f, !.data = data, !.overwriteFalse = overwriteFalse,
                    !.append = append, !.sanitize = sanitize, !.fail = fail],
                 out, Addressed({filePath}),
                 IF out.res.success /\ ~append /\ data.kind = "buffer"
                   THEN {<<filePath, data.value>>} ELSE {})

DeleteFile ==
  StoreIdle /\
  \E c \in StoreCategoryInputs, f \in StoreNameInputs, fail \in {"none", "unlink"} :
  \E out \in {deleteFile(FileSystem, c, f, fail)} :
    StoreStep([StoreCall("deleteFile") EXCEPT !.cat = c, !.file = f, !.fail = fail],
              out,
              Addressed({getSafeFilePath(SAFE_DIRECTORIES, c, f, FALSE)}), {})

StoreCreateFolder ==
  StoreIdle /\
  \E c \in StoreCategoryInputs, f \in StoreFolderInputs, fail \in {"none", "mkdir"} :
  \E out \in {createFolder(FileSystem, c, f, fail)} :
    StoreStep([StoreCall("createFolder") EXCEPT !.cat = c, !.file = f, !.fail = fail],
              out, {}, {})

\* The target path of a copy or move.
TargetPathOf(safeDirs, sf, tc, tf) ==
  getSafeFilePath(safeDirs, tc, IF tf = <<>> THEN sf ELSE tf, FALSE)

\* What fs.copyFile may do to the content when source and target are the
\* same file: keep it (FALSE) or truncate it (TRUE).
SameFileOutcomes(safeDirs, sc, sf, tc, tf) ==
  IF getSafeFilePath(safeDirs, sc, sf, FALSE) = TargetPathOf(safeDirs, sf, tc, tf)
    THEN BOOLEAN ELSE {FALSE}

CopyFile ==
  StoreIdle /\
  \E sc \in StoreCategoryInputs, sf \in StoreNameInputs, tc \in StoreCategoryInputs,
     tf \in StoreTargetInputs, overwriteFalse \in BOOLEAN, fail \in {"none", "mkdir", "copy"} :
  \E truncates \in SameFileOutcomes(SAFE_DIRECTORIES, sc, sf, tc, tf) :
  \E out \in {copyFile(FileSystem, sc, sf, tc, tf, overwriteFalse, fail, truncates)} :
    StoreStep([StoreCall("copyFile") EXCEPT
                 !.cat = sc, !.file = sf, !.tcat = tc, !.tfile = tf,
                 !.overwriteFalse = overwriteFalse, !.fail = fail, !.truncates = truncates],
              out,
              Addressed({TargetPathOf(SAFE_DIRECTORIES, sf, tc, tf)}), {})

MoveFile ==
  StoreIdle /\
  \E sc \in StoreCategoryInputs, sf \in StoreNameInputs, tc \in StoreCategoryInputs,
     tf \in StoreTargetInputs, overwriteFalse \in BOOLEAN,
     fail \in {"none", "mkdir", "copy", "unlink"} :
  \E truncates \in SameFileOutcomes(SAFE_DIRECTORIES, sc, sf, tc, tf) :
  \E out \in {moveFile(FileSystem, sc, sf, tc, tf, overwriteFalse, fail, truncates)} :
    StoreStep([StoreCall("moveFile") EXCEPT
                 !.cat = sc, !.file = sf, !.tcat = tc, !.tfile = tf,
                 !.overwriteFalse = overwriteFalse, !.fail = fail, !.truncates = truncates],
              out,
              Addressed({getSafeFilePath(SAFE_DIRECTORIES, sc, sf, FALSE),
                         TargetPathOf(SAFE_DIRECTORIES, sf, tc, tf)}), {})

NextStore ==
  \/ GetFiles
  \/ GetFile
  \/ SaveDataToFile
  \/ DeleteFile
  \/ StoreCreateFolder
  \/ CopyFile
  \/ MoveFile

(***************************************************************************)
(* logUtils.js: configuration and pure helpers.                            *)
(***************************************************************************)
\* Most log calls made in a run.
MaxCalls == 3
\* Most listeners added in a run.
MaxListeners == 2
\* Most log calls in progress (dispatching or in their disk part) at once.
MaxInFlight == 2
\* Most file system operations that fail in a run.
MaxFailures == 1
\* config.LOG_LIMIT (properties.IN_MEMORY_LOG_LIMIT, 1000 by default), scaled.
LOG_LIMIT == 2
\* config.ROTATION_COUNT (5 in the source), scaled.
ROTATION_COUNT == 2
\* config.LOG_FILE_MAX_SIZE (5MB in the source), scaled: the unit is the
\* size of a log line without error details.
LOG_FILE_MAX_SIZE == 2

LevelNames == {"ERROR", "WARNING", "INFO", "DEBUG", "SUCCESS"}

\* config.LOG_LEVELS
LOG_LEVELS ==
  [l \in LevelNames |->
     CASE l = "ERROR" -> 0
       [] l = "WARNING" -> 1
       [] l = "INFO" -> 2
       [] l = "DEBUG" -> 3
       [] l = "SUCCESS" -> 4]

\* A level name setLogLevel does not know.
InvalidLevel == <<"V", "e", "r", "b", "o", "s", "e">>

\* The keys of config.LOG_LEVELS, letter by letter.
LevelKeys ==
  [l \in LevelNames |->
     CASE l = "ERROR" -> <<"E", "R", "R", "O", "R">>
       [] l = "WARNING" -> <<"W", "A", "R", "N", "I", "N", "G">>
       [] l = "INFO" -> <<"I", "N", "F", "O">>
       [] l = "DEBUG" -> <<"D", "E", "B", "U", "G">>
       [] l = "SUCCESS" -> <<"S", "U", "C", "C", "E", "S", "S">>]

LowerCaseLetters ==
  <<"a", "b", "c", "d", "e", "f", "g", "h", "i", "j", "k", "l", "m",
    "n", "o", "p", "q", "r", "s", "t", "u", "v", "w", "x", "y", "z">>

UpperCaseLetters ==
  <<"A", "B", "C", "D", "E", "F", "G", "H", "I", "J", "K", "L", "M",
    "N", "O", "P", "Q", "R", "S", "T", "U", "V", "W", "X", "Y", "Z">>

\* A conversion that leaves every letter as it is.
toUpperCase_Unchanged(s) == s

\* The upper case of each lower case letter, and the reverse.
UpperCaseOf == [c \in {LowerCaseLetters[k] : k \in 1..26} |->
                  UpperCaseLetters[CHOOSE k \in 1..26 : LowerCaseLetters[k] = c]]

LowerCaseOf == [c \in {UpperCaseLetters[k] : k \in 1..26} |->
                  LowerCaseLetters[CHOOSE k \in 1..26 : UpperCaseLetters[k] = c]]

\* String.prototype.toUpperCase
toUpperCase(s) ==
  [i \in 1..Len(s) |-> IF s[i] \in DOMAIN UpperCaseOf THEN UpperCaseOf[s[i]] ELSE s[i]]

\* String.prototype.toLowerCase
toLowerCase(s) ==
  [i \in 1..Len(s) |-> IF s[i] \in DOMAIN LowerCaseOf THEN LowerCaseOf[s[i]] ELSE s[i]]

\* config.LOG_LEVELS[upperLevel] !== undefined
isLogLevel(upperLevel) == \E l \in LevelNames : LevelKeys[l] = upperLevel

\* The level whose key is upperLevel.
levelOf(upperLevel) == CHOOSE l \in LevelNames : LevelKeys[l] = upperLevel

\* The level arguments of setLogLevel and of the routes.
LevelInputs ==
  {LevelKeys[l] : l \in LevelNames} \cup
  {<<"d", "e", "b", "u", "g">>, <<"E", "r", "r", "o", "r">>, InvalidLevel, <<>>}

\* formatLogEntry: id stands for the timestamp and the message, error for the
\* presence of an error object.
formatLogEntry(id, level, error) == [id |-> id, level |-> level, error |-> error]

NoEntry == formatLogEntry(0, "INFO", FALSE)

\* The level test of log, with >= for >.
shouldDiscard_AtOrBelow(level, current) == LOG_LEVELS[level] >= LOG_LEVELS[current]

\* The level test of log: the call returns before anything is done.
shouldDiscard(level, current) == LOG_LEVELS[level] > LOG_LEVELS[current]

\* The buffer after a push that never trims.
pushEntry_NoTrim(buffer, logEntry) == Append(buffer, logEntry)

\* addToBuffer, the buffer: push, then shift if the limit is exceeded.
pushEntry(buffer, logEntry) ==
  LET pushed == Append(buffer, logEntry)
  IN IF Len(pushed) > LOG_LIMIT THEN Tail(pushed) ELSE pushed

\* The size of the text log writes for an entry: the line, and the error
\* lines if there is an error.
LineSize(logEntry) == IF logEntry.error THEN 2 ELSE 1

RECURSIVE FileSize(_)
FileSize(lines) == IF lines = <<>> THEN 0 ELSE LineSize(Head(lines)) + FileSize(Tail(lines))

\* needsRotation with > for >=.
needsRotation_Above(fs) == 0 \in DOMAIN fs /\ FileSize(fs[0]) > LOG_FILE_MAX_SIZE

\* needsRotation: the file exists and its size is at or above the limit.
needsRotation(fs) == 0 \in DOMAIN fs /\ FileSize(fs[0]) >= LOG_FILE_MAX_SIZE

\* Array indexOf + splice(index, 1): the first occurrence removed.
RemoveFirst(seq, x) ==
  IF \E i \in 1..Len(seq) : seq[i] = x
    THEN LET k == CHOOSE i \in 1..Len(seq) : seq[i] = x /\ \A j \in 1..(i - 1) : seq[j] # x
         IN SubSeq(seq, 1, k - 1) \o SubSeq(seq, k + 1, Len(seq))
  ELSE seq

\* A remove function that takes the last element of the array instead.
removeListener_Last(lstn, callback) ==
  IF lstn = <<>> THEN lstn ELSE SubSeq(lstn, 1, Len(lstn) - 1)

\* The function addListener returns, applied to the array.
removeListener(lstn, callback) == RemoveFirst(lstn, callback)

\* addListener, the array.
addListener(lstn, callback) == Append(lstn, callback)

\* An addListener that calls the new callback with every buffered entry.
invokedOnAdd_Buffer(buffer) == buffer

\* What addListener calls the new callback with: nothing, the callback is
\* only pushed onto the array.
invokedOnAdd(buffer) == <<>>

\* fs.unlink(name) that succeeds, or finds no file (ENOENT).
Unlink(fs, name) == [n \in DOMAIN fs \ {name} |-> fs[n]]

\* fs.rename(from, to) that succeeds, or finds no file (ENOENT).
Rename(fs, from, to) ==
  IF from \in DOMAIN fs
    THEN [n \in (DOMAIN fs \ {from}) \cup {to} |-> IF n = to THEN fs[from] ELSE fs[n]]
  ELSE fs

\* The names the open file handles lead to after a rename or an unlink
\* (to = -1): a handle follows its file, and a file written over or unlinked
\* has no name (-1).
MoveHandles(ps, from, to) ==
  [q \in DOMAIN ps |->
     IF ps[q].pc \in {"write", "close"} /\ (from \in DOMAIN files)
       THEN IF ps[q].at = from THEN [ps[q] EXCEPT !.at = to]
            ELSE IF ps[q].at = to THEN [ps[q] EXCEPT !.at = -1]
            ELSE ps[q]
     ELSE ps[q]]

(***************************************************************************)
(* The log store: initial state.                                           *)
(***************************************************************************)
ListenerIds == 1..MaxListeners

NoCall == [n |-> 0, level |-> "INFO", min |-> "INFO", id |-> 0]

NoDispatch == [entry |-> NoEntry, start |-> <<>>, threw |-> {}, quiet |-> TRUE]

\* A query record: the call, its options, the entries it ran on and what it
\* returned (threw: it threw instead).
NoQuery == [kind |-> "none", level |-> <<>>, search |-> <<>>, limit |-> 0, input |-> <<>>,
            threw |-> FALSE, logs |-> <<>>]

NoSetLevel == [arg |-> <<>>, before |-> "INFO", n |-> 0]

NoDone == [entry |-> NoEntry, alone |-> FALSE, failed |-> FALSE, before |-> <<>>,
           rejected |-> FALSE]

\* The log store apart from the level and the buffer.
InitLogState ==
  /\ listeners = <<>>
  /\ stack = <<>>
  /\ procs = <<>>
  /\ files \in {<<>>, [n \in {0} |-> <<>>]}
  /\ calls = 0
  /\ accepted = 0
  /\ failures = 0
  /\ delivered = [l \in ListenerIds |-> <<>>]
  /\ subscribedAt = [l \in ListenerIds |-> -1]
  /\ unsubscribedAt = [l \in ListenerIds |-> -1]
  /\ lastCall = NoCall
  /\ lastDispatch = NoDispatch
  /\ lastDone = NoDone
  /\ rotations = 0
  /\ clean = TRUE
  /\ lastSetLevel = NoSetLevel
  /\ lastQuery = NoQuery

InitRestVars ==
  /\ streams = [l \in ListenerIds |-> "none"]
  /\ saves = <<>>
  /\ done = <<>>
  /\ leaked = 0

InitLogVars ==
  /\ CURRENT_LOG_LEVEL = "INFO"
  /\ entries = <<>>
  /\ InitLogState

Init == InitPathVars /\ InitLogVars /\ InitStoreVars /\ InitRestVars

InitPath == Init

(***************************************************************************)
(* log(level, message, error): the synchronous part up to the dispatch.    *)
(***************************************************************************)
\* The call is made with `current` as the configured level, `lstn` as the
\* listener array and `stk` as the dispatches in progress; `cont` is the
\* callback the caller adds once log has returned (0: none).
LogBegin(level, error, current, lstn, stk, cont) ==
  /\ Len(procs) + Len(stk) < MaxInFlight
  /\ calls' = calls + 1
  /\ IF shouldDiscard(level, current)
       THEN /\ lastCall' = [n |-> calls + 1, level |-> level, min |-> current, id |-> 0]
            /\ stack' = stk
            /\ UNCHANGED <<entries, accepted>>
       ELSE LET logEntry == formatLogEntry(accepted + 1, level, error)
            IN /\ lastCall' = [n |-> calls + 1, level |-> level, min |-> current,
                               id |-> accepted + 1]
               /\ accepted' = accepted + 1
               /\ entries' = pushEntry(entries, logEntry)
               /\ stack' = Append(stk, [entry |-> logEntry, k |-> 0, len |-> Len(lstn),
                                        cont |-> cont, start |-> lstn,
                                        threw |-> {}, quiet |-> TRUE])

\* logger.error/warning/info/debug/success called by the server's code.
Log(level, error) ==
  /\ stack = <<>>
  /\ LogBegin(level, error, CURRENT_LOG_LEVEL, listeners, <<>>, 0)
  /\ UNCHANGED <<CURRENT_LOG_LEVEL, listeners, procs, files, failures, delivered,
                 subscribedAt, unsubscribedAt, lastDispatch, lastDone, rotations, clean,
                 pathVars, storeVars, restVars, lastSetLevel, lastQuery>>

\* logger.setLogLevel(level): a known level is set and reported at INFO, an
\* unknown one is reported at WARNING.
SetLogLevel(level) ==
  LET upperLevel == toUpperCase(level)
  IN /\ stack = <<>>
     /\ calls < MaxCalls
     /\ IF isLogLevel(upperLevel)
          THEN /\ CURRENT_LOG_LEVEL' = levelOf(upperLevel)
               /\ LogBegin("INFO", FALSE, levelOf(upperLevel), listeners, <<>>, 0)
          ELSE /\ UNCHANGED CURRENT_LOG_LEVEL
               /\ LogBegin("WARNING", FALSE, CURRENT_LOG_LEVEL, listeners, <<>>, 0)
     /\ UNCHANGED <<listeners, procs, files, failures, delivered, subscribedAt,
                    unsubscribedAt, lastDispatch, lastDone, rotations, clean, pathVars,
                    storeVars, restVars, lastQuery>>

\* A setLogLevel call that is recorded in lastSetLevel.
RecordedSetLogLevel(level) ==
  /\ SetLogLevel(level)
  /\ lastSetLevel' = [arg |-> level, before |-> CURRENT_LOG_LEVEL, n |-> calls + 1]

\* The callback a caller of addListener passes: each caller makes a new one.
FreshListener == CHOOSE l \in ListenerIds : subscribedAt[l] = -1 /\ \A m \in 1..(l - 1) : subscribedAt[m] # -1

HasFreshListener == \E l \in ListenerIds : subscribedAt[l] = -1

\* logger.addListener(callback)
AddListener ==
  /\ stack = <<>>
  /\ HasFreshListener
  /\ listeners' = addListener(listeners, FreshListener)
  /\ delivered' = [delivered EXCEPT ![FreshListener] = @ \o invokedOnAdd(entries)]
  /\ subscribedAt' = [subscribedAt EXCEPT ![FreshListener] = accepted]
  /\ UNCHANGED <<CURRENT_LOG_LEVEL, entries, stack, procs, files, calls, accepted,
                 failures, unsubscribedAt, lastCall, lastDispatch, lastDone,
                 rotations, clean, pathVars, storeVars, restVars, lastSetLevel, lastQuery>>

\* GET /logs/live: "Client connected" is logged, then the listener is added
\* (the response stream left aside).
LiveConnectStep ==
  /\ stack = <<>>
  /\ calls < MaxCalls
  /\ HasFreshListener
  /\ LogBegin("INFO", FALSE, CURRENT_LOG_LEVEL, listeners, <<>>, FreshListener)
  /\ IF shouldDiscard("INFO", CURRENT_LOG_LEVEL)
       THEN /\ listeners' = addListener(listeners, FreshListener)
            /\ delivered' = [delivered EXCEPT ![FreshListener] = @ \o invokedOnAdd(entries)]
            /\ subscribedAt' = [subscribedAt EXCEPT ![FreshListener] = accepted]
       ELSE UNCHANGED <<listeners, delivered, subscribedAt>>
  /\ UNCHANGED <<CURRENT_LOG_LEVEL, procs, files, failures, unsubscribedAt,
                 lastDispatch, lastDone, rotations, clean, pathVars, storeVars, lastSetLevel, lastQuery>>

LiveConnect == LiveConnectStep /\ UNCHANGED restVars

\* The function addListener returned is called, outside any dispatch.
RemoveListener(l) ==
  /\ stack = <<>>
  /\ subscribedAt[l] # -1
  /\ unsubscribedAt[l] = -1
  /\ listeners' = removeListener(listeners, l)
  /\ unsubscribedAt' = [unsubscribedAt EXCEPT ![l] = accepted]
  /\ UNCHANGED <<CURRENT_LOG_LEVEL, entries, stack, procs, files, calls, accepted,
                 failures, delivered, subscribedAt, lastCall, lastDispatch, lastDone,
                 rotations, clean, pathVars, storeVars, restVars, lastSetLevel, lastQuery>>

\* The close handler of GET /logs/live: the listener is removed, then
\* "Client disconnected" is logged (the response stream left aside).
LiveCloseStep(l) ==
  /\ stack = <<>>
  /\ calls < MaxCalls
  /\ subscribedAt[l] # -1
  /\ unsubscribedAt[l] = -1
  /\ listeners' = removeListener(listeners, l)
  /\ unsubscribedAt' = [unsubscribedAt EXCEPT ![l] = accepted]
  /\ LogBegin("INFO", FALSE, CURRENT_LOG_LEVEL, listeners', <<>>, 0)
  /\ UNCHANGED <<CURRENT_LOG_LEVEL, procs, files, failures, delivered, subscribedAt,
                 lastDispatch, lastDone, rotations, clean, pathVars, storeVars, lastSetLevel, lastQuery>>

LiveClose(l) == LiveCloseStep(l) /\ UNCHANGED restVars

(***************************************************************************)
(* addToBuffer: listeners.forEach, one callback at a time.                 *)
(***************************************************************************)
Top == stack[Len(stack)]

Below == SubSeq(stack, 1, Len(stack) - 1)

\* forEach visits index k while k is below the length it read at the start
\* and the array still has an element there.
HasNext(frame, lstn) == frame.k < frame.len /\ frame.k < Len(lstn)

\* The frame after a callback that returned.
afterReturn(frame) == [frame EXCEPT !.k = @ + 1]

\* A throw that ends the forEach.
afterThrow_Propagates(frame) ==
  [frame EXCEPT !.k = frame.len, !.threw = @ \cup {frame.k + 1}]

\* The frame after a callback that threw: the catch logs to the console and
\* forEach goes on. threw records the positions of the callbacks that threw.
afterThrow(frame) == [frame EXCEPT !.k = @ + 1, !.threw = @ \cup {frame.k + 1}]

\* The frame after a callback that called the logger.
afterReentry(frame) == [frame EXCEPT !.k = @ + 1, !.quiet = FALSE]

Invoked == listeners[Top.k + 1]

Deliver == delivered' = [delivered EXCEPT ![Invoked] = Append(@, Top.entry)]

CallbackReturns ==
  /\ stack # <<>> /\ HasNext(Top, listeners)
  /\ Deliver
  /\ stack' = Append(Below, afterReturn(Top))
  /\ UNCHANGED <<CURRENT_LOG_LEVEL, entries, listeners, procs, files, calls, accepted,
                 failures, subscribedAt, unsubscribedAt, lastCall, lastDispatch, lastDone,
                 rotations, clean, pathVars, storeVars, restVars, lastSetLevel, lastQuery>>

CallbackThrows ==
  /\ stack # <<>> /\ HasNext(Top, listeners)
  /\ Deliver
  /\ stack' = Append(Below, afterThrow(Top))
  /\ UNCHANGED <<CURRENT_LOG_LEVEL, entries, listeners, procs, files, calls, accepted,
                 failures, subscribedAt, unsubscribedAt, lastCall, lastDispatch, lastDone,
                 rotations, clean, pathVars, storeVars, restVars, lastSetLevel, lastQuery>>

\* The callback calls the remove function of listener l (its own or another's).
CallbackUnsubscribes(l) ==
  /\ stack # <<>> /\ HasNext(Top, listeners)
  /\ subscribedAt[l] # -1
  /\ unsubscribedAt[l] = -1
  /\ Deliver
  /\ listeners' = removeListener(listeners, l)
  /\ unsubscribedAt' = [unsubscribedAt EXCEPT ![l] = accepted]
  /\ stack' = Append(Below, afterReentry(Top))
  /\ UNCHANGED <<CURRENT_LOG_LEVEL, entries, procs, files, calls, accepted, failures,
                 subscribedAt, lastCall, lastDispatch, lastDone, rotations, clean,
                 pathVars, storeVars, restVars, lastSetLevel, lastQuery>>

\* The callback calls logger.info.
CallbackLogs ==
  /\ stack # <<>> /\ HasNext(Top, listeners)
  /\ calls < MaxCalls
  /\ Deliver
  /\ LogBegin("INFO", FALSE, CURRENT_LOG_LEVEL, listeners, Append(Below, afterReentry(Top)), 0)
  /\ UNCHANGED <<CURRENT_LOG_LEVEL, listeners, procs, files, failures, subscribedAt,
                 unsubscribedAt, lastDispatch, lastDone, rotations, clean, pathVars, storeVars, restVars, lastSetLevel, lastQuery>>

\* A log call at the first await of its disk part.
NewProc(logEntry) ==
  [entry |-> logEntry, pc |-> "stat", i |-> 0, at |-> -1, held |-> FALSE,
   alone |-> procs = <<>>, failed |-> FALSE, before |-> <<>>]

\* forEach is over: log goes on to rotateLogFile, whose first file system
\* call is now in flight, and returns its promise to the caller.
DispatchEnd ==
  /\ stack # <<>> /\ ~HasNext(Top, listeners)
  /\ stack' = Below
  /\ procs' = Append([q \in DOMAIN procs |-> [procs[q] EXCEPT !.alone = FALSE]],
                     NewProc(Top.entry))
  /\ clean' = (clean /\ procs = <<>>)
  /\ lastDispatch' = [entry |-> Top.entry, start |-> Top.start, threw |-> Top.threw,
                      quiet |-> Top.quiet]
  /\ IF Top.cont # 0
       THEN /\ listeners' = addListener(listeners, Top.cont)
            /\ delivered' = [delivered EXCEPT ![Top.cont] = @ \o invokedOnAdd(entries)]
            /\ subscribedAt' = [subscribedAt EXCEPT ![Top.cont] = accepted]
       ELSE UNCHANGED <<listeners, delivered, subscribedAt>>
  /\ UNCHANGED <<CURRENT_LOG_LEVEL, entries, files, calls, accepted, failures,
                 unsubscribedAt, lastCall, lastDone, rotations, pathVars, storeVars, restVars, lastSetLevel, lastQuery>>

(***************************************************************************)
(* log, the disk part: rotateLogFile, then the append to server.log. Each  *)
(* await is a step; the steps of overlapping calls interleave.             *)
(***************************************************************************)
\* Whether a file system operation succeeds (TRUE) or fails with an error
\* other than ENOENT.
IoOutcomes == IF failures < MaxFailures THEN {TRUE, FALSE} ELSE {TRUE}

RemoveAt(seq, p) == SubSeq(seq, 1, p - 1) \o SubSeq(seq, p + 1, Len(seq))

\* What every step of the disk part does to the history.
DiskStep(ok) ==
  /\ stack = <<>>
  /\ failures' = IF ok THEN failures ELSE failures + 1
  /\ clean' = (clean /\ ok)
  /\ UNCHANGED <<CURRENT_LOG_LEVEL, entries, listeners, stack, calls, accepted, delivered,
                 subscribedAt, unsubscribedAt, lastCall, lastDispatch, pathVars, storeVars,
                 streams, saves, done, lastSetLevel, lastQuery>>

\* A log whose promise rejects when one of its file system operations failed.
rejects_OnFailure(failed) == failed

\* Whether the promise log returned rejects, given that some file system
\* operation of the call failed: every await is inside a try whose catch
\* reports to the console and returns.
rejects(failed) == FALSE

\* The log call returns: its promise is settled. A handle it still holds
\* stays open.
Finish(ps, p, ok) ==
  /\ procs' = RemoveAt(ps, p)
  /\ leaked' = IF ps[p].held THEN leaked + 1 ELSE leaked
  /\ lastDone' = [entry |-> ps[p].entry, alone |-> ps[p].alone,
                  failed |-> ps[p].failed \/ ~ok, before |-> ps[p].before,
                  rejected |-> rejects(ps[p].failed \/ ~ok)]

\* needsRotation: the size of server.log is read. A failure is caught by
\* rotateLogFile, which returns without rotating.
Stat(p, ok) ==
  /\ DiskStep(ok)
  /\ procs[p].pc = "stat"
  /\ procs' = [procs EXCEPT ![p] =
       IF ~ok THEN [@ EXCEPT !.pc = "mkdir", !.failed = TRUE]
       ELSE [@ EXCEPT !.pc = IF needsRotation(files) THEN "unlink" ELSE "mkdir",
                      !.before = files]]
  /\ lastDone' = NoDone /\ UNCHANGED leaked
  /\ UNCHANGED <<files, rotations>>

\* for (let i = config.ROTATION_COUNT - 1; ...
firstShift == ROTATION_COUNT - 1

\* A rotation whose loop shifts no backup.
LoopAt_NoShift(i) == [pc |-> "renameCur", i |-> 0]

\* The pc and the loop index after the unlink and after each rename of the loop.
LoopAt(i) == IF i >= 1 THEN [pc |-> "shift", i |-> i] ELSE [pc |-> "renameCur", i |-> 0]

\* fs.unlink of the oldest backup.
UnlinkOldest(p, ok) ==
  /\ DiskStep(ok)
  /\ procs[p].pc = "unlink"
  /\ files' = IF ok THEN Unlink(files, ROTATION_COUNT) ELSE files
  /\ procs' = [(IF ok THEN MoveHandles(procs, ROTATION_COUNT, -1) ELSE procs) EXCEPT ![p] =
       [@ EXCEPT !.pc = LoopAt(firstShift).pc, !.i = LoopAt(firstShift).i,
                 !.failed = @ \/ ~ok]]
  /\ lastDone' = NoDone /\ UNCHANGED leaked
  /\ UNCHANGED rotations

\* fs.rename of backup i to i + 1.
Shift(p, ok) ==
  /\ DiskStep(ok)
  /\ procs[p].pc = "shift"
  /\ LET i == procs[p].i
     IN /\ files' = IF ok THEN Rename(files, i, i + 1) ELSE files
        /\ procs' = [(IF ok THEN MoveHandles(procs, i, i + 1) ELSE procs) EXCEPT ![p] =
             [@ EXCEPT !.pc = LoopAt(i - 1).pc, !.i = LoopAt(i - 1).i,
                       !.failed = @ \/ ~ok]]
  /\ lastDone' = NoDone /\ UNCHANGED leaked
  /\ UNCHANGED rotations

\* fs.rename of server.log to server.log.1.
RenameCurrent(p, ok) ==
  /\ DiskStep(ok)
  /\ procs[p].pc = "renameCur"
  /\ files' = IF ok THEN Rename(files, 0, 1) ELSE files
  /\ procs' = [(IF ok THEN MoveHandles(procs, 0, 1) ELSE procs) EXCEPT ![p] =
       [@ EXCEPT !.pc = "mkdir", !.failed = @ \/ ~ok]]
  /\ rotations' = IF ok /\ 0 \in DOMAIN files THEN rotations + 1 ELSE rotations
  /\ lastDone' = NoDone /\ UNCHANGED leaked

\* fs.mkdir of the log directory; a failure ends the call in its catch.
Mkdir(p, ok) ==
  /\ DiskStep(ok)
  /\ procs[p].pc = "mkdir"
  /\ IF ok
       THEN /\ procs' = [procs EXCEPT ![p] = [@ EXCEPT !.pc = "open"]]
            /\ lastDone' = NoDone /\ UNCHANGED leaked
       ELSE Finish(procs, p, ok)
  /\ UNCHANGED <<files, rotations>>

\* fs.open(filePath, 'a'): the file is created if there is none.
Open(p, ok) ==
  /\ DiskStep(ok)
  /\ procs[p].pc = "open"
  /\ IF ok
       THEN /\ files' = IF 0 \in DOMAIN files THEN files
                        ELSE [n \in DOMAIN files \cup {0} |-> IF n = 0 THEN <<>> ELSE files[n]]
            /\ procs' = [procs EXCEPT ![p] = [@ EXCEPT !.pc = "write", !.at = 0,
                                                        !.held = TRUE]]
            /\ lastDone' = NoDone /\ UNCHANGED leaked
       ELSE /\ Finish(procs, p, ok)
            /\ UNCHANGED files
  /\ UNCHANGED rotations

\* fileHandle.writeFile: the text goes to the file the handle was opened on,
\* whatever its name is by now.
Write(p, ok) ==
  /\ DiskStep(ok)
  /\ procs[p].pc = "write"
  /\ files' = IF ok /\ procs[p].at \in DOMAIN files
                THEN [files EXCEPT ![procs[p].at] = Append(@, procs[p].entry)]
              ELSE files
  /\ procs' = [procs EXCEPT ![p] = [@ EXCEPT !.pc = "close", !.failed = @ \/ ~ok]]
  /\ lastDone' = NoDone /\ UNCHANGED leaked
  /\ UNCHANGED rotations

\* fileHandle.close in the finally; its failure is caught and reported.
Close(p, ok) ==
  /\ DiskStep(ok)
  /\ procs[p].pc = "close"
  /\ Finish([procs EXCEPT ![p] = [@ EXCEPT !.held = FALSE]], p, ok)
  /\ UNCHANGED <<files, rotations>>

(***************************************************************************)
(* The log store with its listeners and levels: every file system          *)
(* operation succeeds, entries carry no error object.                      *)
(***************************************************************************)
DoLog == calls < MaxCalls /\ \E level \in {"INFO","DEBUG"} : Log(level, FALSE)

LevelLog == calls < MaxCalls /\ \E level \in LevelNames : Log(level, FALSE)

DoSetLogLevel ==
  /\ \E level \in {LevelKeys[l] : l \in LevelNames} \cup {InvalidLevel} : SetLogLevel(level)
  /\ UNCHANGED lastSetLevel

SpellSetLogLevel == \E level \in LevelInputs : RecordedSetLogLevel(level)

DoRemoveListener == \E l \in ListenerIds : RemoveListener(l)

DoLiveClose == \E l \in ListenerIds : LiveClose(l)

DoCallbackUnsubscribes == \E l \in ListenerIds : CallbackUnsubscribes(l)

DoStat == \E p \in DOMAIN procs : Stat(p, TRUE)

DoUnlinkOldest == \E p \in DOMAIN procs : UnlinkOldest(p, TRUE)

DoShift == \E p \in DOMAIN procs : Shift(p, TRUE)

DoRenameCurrent == \E p \in DOMAIN procs : RenameCurrent(p, TRUE)

DoMkdir == \E p \in DOMAIN procs : Mkdir(p, TRUE)

DoOpen == \E p \in DOMAIN procs : Open(p, TRUE)

DoWrite == \E p \in DOMAIN procs : Write(p, TRUE)

DoClose == \E p \in DOMAIN procs : Close(p, TRUE)

Next ==
  \/ DoLog
  \/ AddListener
  \/ LiveConnect
  \/ DoRemoveListener
  \/ DoLiveClose
  \/ CallbackReturns
  \/ CallbackThrows
  \/ DoCallbackUnsubscribes
  \/ CallbackLogs
  \/ DispatchEnd
  \/ DoStat
  \/ DoUnlinkOldest
  \/ DoShift
  \/ DoRenameCurrent
  \/ DoMkdir
  \/ DoOpen
  \/ DoWrite
  \/ DoClose

Spec == Init /\ [][Next]_vars

(***************************************************************************)
(* The log store's disk part: no listeners, one level; log calls with and  *)
(* without an error object overlap and file system operations fail.        *)
(***************************************************************************)
\* Most log calls made in a run of the disk part.
MaxDiskCalls == 4

DiskLog == calls < MaxDiskCalls /\ \E error \in BOOLEAN : Log("INFO", error)

DiskStat == \E p \in DOMAIN procs, ok \in IoOutcomes : Stat(p, ok)

DiskUnlinkOldest == \E p \in DOMAIN procs, ok \in IoOutcomes : UnlinkOldest(p, ok)

DiskShift == \E p \in DOMAIN procs, ok \in IoOutcomes : Shift(p, ok)

DiskRenameCurrent == \E p \in DOMAIN procs, ok \in IoOutcomes : RenameCurrent(p, ok)

DiskMkdir == \E p \in DOMAIN procs, ok \in IoOutcomes : Mkdir(p, ok)

DiskOpen == \E p \in DOMAIN procs, ok \in IoOutcomes : Open(p, ok)

DiskWrite == \E p \in DOMAIN procs, ok \in IoOutcomes : Write(p, ok)

DiskClose == \E p \in DOMAIN procs, ok \in IoOutcomes : Close(p, ok)

NextDisk ==
  \/ DiskLog
  \/ DispatchEnd
  \/ DiskStat
  \/ DiskUnlinkOldest
  \/ DiskShift
  \/ DiskRenameCurrent
  \/ DiskMkdir
  \/ DiskOpen
  \/ DiskWrite
  \/ DiskClose

SpecDisk == Init /\ [][NextDisk]_vars

(***************************************************************************)
(* The log store's level filter: every level is logged and set, listeners  *)
(* only return.                                                            *)
(***************************************************************************)
NextLevel ==
  \/ LevelLog
  \/ DoSetLogLevel
  \/ AddListener
  \/ CallbackReturns
  \/ DispatchEnd
  \/ DoStat
  \/ DoUnlinkOldest
  \/ DoShift
  \/ DoRenameCurrent
  \/ DoMkdir
  \/ DoOpen
  \/ DoWrite
  \/ DoClose

SpecLevel == Init /\ [][NextLevel]_vars

(***************************************************************************)
(* The configured level: setLogLevel with names in any spelling, log calls *)
(* at every level, no listeners.                                           *)
(***************************************************************************)
NextSetLevel ==
  \/ LevelLog
  \/ SpellSetLogLevel
  \/ DispatchEnd
  \/ DoStat
  \/ DoUnlinkOldest
  \/ DoShift
  \/ DoRenameCurrent
  \/ DoMkdir
  \/ DoOpen
  \/ DoWrite
  \/ DoClose

SpecSetLevel == Init /\ [][NextSetLevel]_vars

(***************************************************************************)
(* Reading the buffer: logger.getLogs and the callback of GET /logs/live.  *)
(* Both are functions of the entries they are given; the entries carry     *)
(* their message and their error object here.                              *)
(***************************************************************************)
\* The error argument of a log call: none, an Error with a message, or a
\* value without a message property (formatLogEntry copies error.message
\* whatever it is).
NoError == [present |-> FALSE, hasMessage |-> FALSE, message |-> <<>>]

ErrorWith(message) == [present |-> TRUE, hasMessage |-> TRUE, message |-> message]

ErrorWithoutMessage == [present |-> TRUE, hasMessage |-> FALSE, message |-> <<>>]

\* formatLogEntry with the message and the error object kept; id stands for
\* the timestamp.
formatLogEntryFull(id, level, message, error) ==
  [id |-> id, level |-> level, message |-> message, error |-> error]

MessageInputs == {<<"a">>, <<"A", "b">>}

ErrorInputs == {NoError, ErrorWith(<<"B">>), ErrorWithoutMessage}

\* The buffers of at most LOG_LIMIT entries, the ids in the order of the calls.
BufferInputs ==
  UNION {{[i \in 1..n |-> formatLogEntryFull(i, f[i][1], f[i][2], f[i][3])] :
            f \in [1..n -> LevelNames \X MessageInputs \X ErrorInputs]} : n \in 0..LOG_LIMIT}

\* The level, search and limit parameters; <<>> and 0 stand for a missing one.
QueryLevelInputs == {<<>>, LevelKeys["ERROR"], LevelKeys["INFO"], <<"d", "e", "b", "u", "g">>,
                     InvalidLevel}

SearchInputs == {<<>>, <<"a">>, <<"B">>, <<"x">>}

LimitInputs == {-1, 0, 1, 2}

\* String.prototype.includes
includes(s, t) == \E i \in 0..(Len(s) - Len(t)) : SubSeq(s, i + 1, i + Len(t)) = t

\* Array.prototype.slice(-n), n > 0
sliceLast(s, n) == SubSeq(s, IF Len(s) > n THEN Len(s) - n + 1 ELSE 1, Len(s))

\* getLogs, the level filter: applied when the name is a key of LOG_LEVELS.
filterByLevel(buffer, level) ==
  IF level # <<>> /\ isLogLevel(toUpperCase(level))
    THEN LET AtMost(entry) == LOG_LEVELS[entry.level] <= LOG_LEVELS[levelOf(toUpperCase(level))]
         IN SelectSeq(buffer, AtMost)
  ELSE buffer

\* getLogs, the search filter's test: entry.error.message.toLowerCase() is
\* evaluated when the message does not match and the entry has an error.
searchThrows(entry, searchText) ==
  /\ ~includes(toLowerCase(entry.message), searchText)
  /\ entry.error.present
  /\ ~entry.error.hasMessage

searchMatches(entry, searchText) ==
  \/ includes(toLowerCase(entry.message), searchText)
  \/ entry.error.present /\ includes(toLowerCase(entry.error.message), searchText)

\* logger.getLogs(options)
getLogs(buffer, level, search, limit) ==
  LET byLevel == filterByLevel(buffer, level)
      searchText == toLowerCase(search)
      Matches(entry) == searchMatches(entry, searchText)
      bySearch == IF search # <<>> THEN SelectSeq(byLevel, Matches) ELSE byLevel
  IN IF search # <<>> /\ \E i \in 1..Len(byLevel) : searchThrows(byLevel[i], searchText)
       THEN [threw |-> TRUE, logs |-> <<>>]
     ELSE [threw |-> FALSE,
           logs |-> IF limit > 0 THEN sliceLast(bySearch, limit) ELSE bySearch]

\* The callback of GET /logs/live: whether the entry is written to the client.
liveWrites(level, search, logEntry) ==
  /\ ~(level # <<>> /\ LevelKeys[logEntry.level] # toUpperCase(level))
  /\ ~(search # <<>> /\ ~includes(toLowerCase(logEntry.message), toLowerCase(search)))

InitQuery ==
  /\ InitPathVars
  /\ InitStoreVars
  /\ InitRestVars
  /\ CURRENT_LOG_LEVEL = "INFO"
  /\ entries \in BufferInputs
  /\ InitLogState

\* A call of getLogs({ level, search, limit }).
GetLogs ==
  /\ lastQuery.kind = "none"
  /\ \E level \in QueryLevelInputs, search \in SearchInputs, limit \in LimitInputs :
       \E out \in {getLogs(entries, level, search, limit)} :
         lastQuery' = [kind |-> "getLogs", level |-> level, search |-> search, limit |-> limit,
                       input |-> entries, threw |-> out.threw, logs |-> out.logs]
  /\ UNCHANGED <<pathVars, storeVars, restVars, CURRENT_LOG_LEVEL, entries, listeners, stack, procs,
                 files, calls, accepted, failures, delivered, subscribedAt, unsubscribedAt,
                 lastCall, lastDispatch, lastDone, rotations, clean, lastSetLevel>>

\* The callback of a live stream opened with level and search, invoked with
\* the entry accepted last.
LiveCallback ==
  /\ lastQuery.kind = "none"
  /\ entries # <<>>
  /\ \E level \in QueryLevelInputs, search \in SearchInputs :
       lastQuery' = [kind |-> "live", level |-> level, search |-> search, limit |-> 0,
                     input |-> <<entries[Len(entries)]>>, threw |-> FALSE,
                     logs |-> IF liveWrites(level, search, entries[Len(entries)])
                                THEN <<entries[Len(entries)]>> ELSE <<>>]
  /\ UNCHANGED <<pathVars, storeVars, restVars, CURRENT_LOG_LEVEL, entries, listeners, stack, procs,
                 files, calls, accepted, failures, delivered, subscribedAt, unsubscribedAt,
                 lastCall, lastDispatch, lastDone, rotations, clean, lastSetLevel>>

NextQuery == GetLogs \/ LiveCallback

SpecQuery == InitQuery /\ [][NextQuery]_vars

(***************************************************************************)
(* The log store with listeners and failing file system operations: one    *)
(* level, listeners that return or throw.                                  *)
(***************************************************************************)
FailLog == calls < MaxCalls /\ Log("INFO", FALSE)

NextFail ==
  \/ FailLog
  \/ AddListener
  \/ CallbackReturns
  \/ CallbackThrows
  \/ DispatchEnd
  \/ DiskStat
  \/ DiskUnlinkOldest
  \/ DiskShift
  \/ DiskRenameCurrent
  \/ DiskMkdir
  \/ DiskOpen
  \/ DiskWrite
  \/ DiskClose

SpecFail == Init /\ [][NextFail]_vars

(***************************************************************************)
(* The file store on its own.                                              *)
(***************************************************************************)
SpecStore == Init /\ [][NextStore]_vars

(***************************************************************************)
(* The path resolver on its own.                                           *)
(***************************************************************************)
SpecPath == InitPath /\ [][NextPath]_vars

(***************************************************************************)
(* The live-tail consumers and their streams: the SSE response of GET      *)
(* /logs/live and the Readable of logger.createLogStream.                  *)
(***************************************************************************)
\* GET /logs/live: the response is opened as an event stream, "Client
\* connected" is logged and the listener is added.
SseConnect ==
  /\ HasFreshListener
  /\ LiveConnectStep
  /\ streams' = [streams EXCEPT ![FreshListener] = "sse"]
  /\ UNCHANGED saveVars

\* The client of /logs/live disconnects: req emits 'close'.
SseClose ==
  \E l \in ListenerIds :
    /\ streams[l] = "sse"
    /\ LiveCloseStep(l)
    /\ streams' = [streams EXCEPT ![l] = "closed"]
    /\ UNCHANGED saveVars

\* logger.createLogStream(options): a Readable is made, the buffered logs
\* are pushed to it, a listener is added that pushes to it, and an 'end'
\* handler is registered that removes the listener.
CreateLogStream ==
  /\ stack = <<>>
  /\ HasFreshListener
  /\ listeners' = addListener(listeners, FreshListener)
  /\ delivered' = [delivered EXCEPT ![FreshListener] = @ \o invokedOnAdd(entries)]
  /\ subscribedAt' = [subscribedAt EXCEPT ![FreshListener] = accepted]
  /\ streams' = [streams EXCEPT ![FreshListener] = "readable"]
  /\ UNCHANGED <<CURRENT_LOG_LEVEL, entries, stack, procs, files, calls, accepted,
                 failures, unsubscribedAt, lastCall, lastDispatch, lastDone,
                 rotations, clean, pathVars, storeVars, saveVars, lastSetLevel, lastQuery>>

\* The Readable emits 'end' (its consumer pushed null and read it to the
\* end): the handler calls removeListener.
StreamEnds ==
  \E l \in ListenerIds :
    /\ stack = <<>>
    /\ streams[l] = "readable"
    /\ listeners' = removeListener(listeners, l)
    /\ unsubscribedAt' = [unsubscribedAt EXCEPT ![l] = accepted]
    /\ streams' = [streams EXCEPT ![l] = "ended"]
    /\ UNCHANGED <<CURRENT_LOG_LEVEL, entries, stack, procs, files, calls, accepted,
                   failures, delivered, subscribedAt, lastCall, lastDispatch, lastDone,
                   rotations, clean, pathVars, storeVars, saveVars, lastSetLevel, lastQuery>>

\* The consumer calls destroy() on the Readable: it emits 'close' (and
\* 'error' when given one), never 'end', and nothing listens to those.
StreamDestroyed ==
  \E l \in ListenerIds :
    /\ stack = <<>>
    /\ streams[l] = "readable"
    /\ streams' = [streams EXCEPT ![l] = "destroyed"]
    /\ UNCHANGED <<pathVars, logVars, storeVars, saveVars>>

NextStream ==
  \/ SseConnect
  \/ SseClose
  \/ CreateLogStream
  \/ StreamEnds
  \/ StreamDestroyed
  \/ DoLog
  \/ CallbackReturns
  \/ DispatchEnd

SpecStream == Init /\ [][NextStream]_vars

(***************************************************************************)
(* saveDataToFile, await by await: the calls are made on one category and  *)
(* fileName with valid data, and the steps of overlapping calls            *)
(* interleave. A file system operation may fail (IoOutcomes).              *)
(***************************************************************************)
\* Most saveDataToFile calls made in a run.
MaxSaves == 2

\* The category and fileName the calls are made with, and the paths they
\* resolve to.
SaveCategory == <<"a">>

SaveFileName == <<"a">>

SaveDirPath == getSafeCategoryPath(SAFE_DIRECTORIES, SaveCategory)

SaveFilePath == getSafeFilePath(SAFE_DIRECTORIES, SaveCategory, SaveFileName, FALSE)

\* The data of the calls: Buffers of one, two and three bytes, a Buffer above
\* the limit, and a string of two characters.
SaveRaceData ==
  {BufferOf(<<1>>), BufferOf(<<2, 2>>), BufferOf(<<3, 3, 3>>),
   BufferOf([i \in 1..(FILE_SIZE_LIMIT + 1) |-> 4]), StringOf(<<97, 97>>)}

\* The options of the calls, as <<overwrite === false, append>>.
SaveRaceOptions == {<<FALSE, FALSE>>, <<FALSE, TRUE>>, <<TRUE, FALSE>>}

\* A write through a handle opened with 'w' or 'r+': the bytes go to the
\* handle's position, 0 for a handle nothing was written through, and what
\* the file holds beyond them stays.
WriteAtStart(old, bytes) == bytes \o SubSeq(old, Len(bytes) + 1, Len(old))

\* A finally that leaves the handle alone.
closesInFinally_Never(fileHandle) == FALSE

\* The finally of saveDataToFile: if (fileHandle) await fileHandle.close().
closesInFinally(fileHandle) == fileHandle

\* A call at its first await: fileExists(filePath).
NewSave(data, noOverwrite, append) ==
  [content |-> contentToWrite(data), isBuffer |-> data.kind = "buffer",
   noOverwrite |-> noOverwrite, append |-> append, pc |-> "access", exists |-> FALSE,
   fileHandle |-> FALSE, held |-> FALSE, opened |-> FALSE, toWrite |-> <<>>, code |-> 0,
   overlapped |-> saves # <<>>]

\* What every step of a call leaves alone.
SaveStep(ok) ==
  /\ failures' = IF ok THEN failures ELSE failures + 1
  /\ UNCHANGED <<pathVars, storeCalls, lastStoreOp, savedBytes, streams,
                 CURRENT_LOG_LEVEL, entries, listeners, stack, procs, files, calls,
                 accepted, delivered, subscribedAt, unsubscribedAt, lastCall,
                 lastDispatch, lastDone, rotations, clean, lastSetLevel, lastQuery>>

\* The record of a call that returned with code (0: success).
Returned(save, code) ==
  [content |-> save.content, append |-> save.append, isBuffer |-> save.isBuffer,
   code |-> code, opened |-> save.opened, overlapped |-> save.overlapped]

\* The call at position p, now save, goes on to its next await.
SaveGoes(p, save) ==
  /\ saves' = [saves EXCEPT ![p] = save]
  /\ UNCHANGED <<done, leaked>>

\* The call at position p, now save, leaves the try block with code (0: the
\* return of the success object): the finally awaits the close of the handle
\* if there is one, and the call returns at once otherwise.
SaveLeavesTry(p, save, code) ==
  IF closesInFinally(save.fileHandle)
    THEN SaveGoes(p, [save EXCEPT !.pc = "finally", !.code = code])
  ELSE /\ saves' = RemoveAt(saves, p)
       /\ done' = Append(done, Returned(save, code))
       /\ leaked' = IF save.held THEN leaked + 1 ELSE leaked

\* saveDataToFile(category, fileName, data, options) is called: the
\* parameters are validated, the paths resolved, and fileExists awaited.
SaveBegin ==
  /\ Len(saves) + Len(done) < MaxSaves
  /\ \E data \in SaveRaceData, o \in SaveRaceOptions :
       /\ validateParams({SaveCategory = <<>>, SaveFileName = <<>>, ~Truthy(data)}).success
       /\ SaveDirPath # NULL /\ SaveFilePath # NULL
       /\ saves' = Append([q \in DOMAIN saves |-> [saves[q] EXCEPT !.overlapped = TRUE]],
                          NewSave(data, o[1], o[2]))
  /\ UNCHANGED <<store, done, leaked>>
  /\ SaveStep(TRUE)

\* fileExists has answered: 409 if the file is there and may be neither
\* overwritten nor appended to, else ensureDirectoryExists is awaited.
SaveAccess ==
  \E p \in DOMAIN saves :
    /\ saves[p].pc = "access"
    /\ LET exists == fileExists(FileSystem, SaveFilePath)
       IN IF exists /\ saves[p].noOverwrite /\ ~saves[p].append
            THEN SaveLeavesTry(p, saves[p], 409)
          ELSE SaveGoes(p, [saves[p] EXCEPT !.pc = "mkdir", !.exists = exists])
    /\ UNCHANGED store
    /\ SaveStep(TRUE)

\* ensureDirectoryExists is over: the size of the content is tested, then
\* fs.stat is awaited for an append to a file that was there, fs.open
\* otherwise.
SaveMkdir ==
  \E p \in DOMAIN saves, ok \in IoOutcomes :
    /\ saves[p].pc = "mkdir"
    /\ IF ~ensureDirectoryExists(FileSystem, SaveDirPath, IF ok THEN "none" ELSE "mkdir").ok
         THEN SaveLeavesTry(p, saves[p], 500)
       ELSE IF Len(saves[p].content) > FILE_SIZE_LIMIT THEN SaveLeavesTry(p, saves[p], 413)
       ELSE SaveGoes(p, [saves[p] EXCEPT
              !.pc = IF saves[p].append /\ saves[p].exists THEN "stat" ELSE "open"])
    /\ UNCHANGED store
    /\ SaveStep(ok)

\* fs.stat has answered: 413 if the file and the content together are above
\* the limit.
SaveStat ==
  \E p \in DOMAIN saves, ok \in IoOutcomes :
    /\ saves[p].pc = "stat"
    /\ IF ~ok \/ ~IsFile(FileSystem, SaveFilePath) THEN SaveLeavesTry(p, saves[p], 500)
       ELSE IF Len(store[SaveFilePath]) + Len(saves[p].content) > FILE_SIZE_LIMIT
         THEN SaveLeavesTry(p, saves[p], 413)
       ELSE SaveGoes(p, [saves[p] EXCEPT !.pc = "open"])
    /\ UNCHANGED store
    /\ SaveStep(ok)

\* fs.open: with 'r' for the append of a Buffer, with 'a' for the append of
\* a string, with 'w' otherwise.
SaveOpen ==
  \E p \in DOMAIN saves, ok \in IoOutcomes :
    /\ saves[p].pc = "open"
    /\ LET flags == IF saves[p].append
                      THEN (IF saves[p].isBuffer THEN "r" ELSE "a") ELSE "w"
       IN IF ~ok \/ ~CanOpen(FileSystem, SaveFilePath, flags)
            THEN /\ SaveLeavesTry(p, saves[p], 500)
                 /\ UNCHANGED store
          ELSE /\ store' = Opened(FileSystem, SaveFilePath, flags).store
               /\ SaveGoes(p, [saves[p] EXCEPT
                     !.pc = IF flags = "r" THEN "read" ELSE "write",
                     !.fileHandle = TRUE, !.held = TRUE, !.opened = TRUE,
                     !.toWrite = saves[p].content])
    /\ SaveStep(ok)

\* fileHandle.readFile() of the append of a Buffer.
SaveRead ==
  \E p \in DOMAIN saves, ok \in IoOutcomes :
    /\ saves[p].pc = "read"
    /\ IF ~ok \/ ~IsFile(FileSystem, SaveFilePath) THEN SaveLeavesTry(p, saves[p], 500)
       ELSE SaveGoes(p, [saves[p] EXCEPT !.pc = "closeRead",
                                        !.toWrite = store[SaveFilePath] \o saves[p].content])
    /\ UNCHANGED store
    /\ SaveStep(ok)

\* await fileHandle.close(); fileHandle = null; of the append of a Buffer.
\* A close that fails throws before the variable is reset, and the finally
\* closes the handle once more.
SaveCloseRead ==
  \E p \in DOMAIN saves, ok \in IoOutcomes :
    /\ saves[p].pc = "closeRead"
    /\ IF ~ok THEN SaveLeavesTry(p, [saves[p] EXCEPT !.held = FALSE], 500)
       ELSE SaveGoes(p, [saves[p] EXCEPT !.pc = "openWrite", !.fileHandle = FALSE,
                                        !.held = FALSE])
    /\ UNCHANGED store
    /\ SaveStep(ok)

\* fs.open(filePath, 'w') of the append of a Buffer.
SaveOpenWrite ==
  \E p \in DOMAIN saves, ok \in IoOutcomes :
    /\ saves[p].pc = "openWrite"
    /\ IF ~ok \/ ~CanOpen(FileSystem, SaveFilePath, "w")
         THEN /\ SaveLeavesTry(p, saves[p], 500)
              /\ UNCHANGED store
       ELSE /\ store' = Opened(FileSystem, SaveFilePath, "w").store
            /\ SaveGoes(p, [saves[p] EXCEPT !.pc = "write", !.fileHandle = TRUE,
                                            !.held = TRUE])
    /\ SaveStep(ok)

\* fileHandle.writeFile(content): through a handle opened with 'a' the bytes
\* go to the end of the file, through one opened with 'w' to the handle's
\* position.
SaveWrite ==
  \E p \in DOMAIN saves, ok \in IoOutcomes :
    /\ saves[p].pc = "write"
    /\ IF ~ok
         THEN /\ SaveLeavesTry(p, saves[p], 500)
              /\ UNCHANGED store
       ELSE /\ store' = [store EXCEPT ![SaveFilePath] =
                           IF saves[p].append /\ ~saves[p].isBuffer
                             THEN @ \o saves[p].toWrite
                           ELSE WriteAtStart(@, saves[p].toWrite)]
            /\ SaveLeavesTry(p, saves[p], 0)
    /\ SaveStep(ok)

\* The finally: await fileHandle.close(), a failure of which is reported to
\* the console; then the call returns what the try or the catch returned.
SaveFinally ==
  \E p \in DOMAIN saves, ok \in IoOutcomes :
    /\ saves[p].pc = "finally"
    /\ saves' = RemoveAt(saves, p)
    /\ done' = Append(done, Returned(saves[p], saves[p].code))
    /\ UNCHANGED <<store, leaked>>
    /\ SaveStep(ok)

NextSave ==
  \/ SaveBegin
  \/ SaveAccess
  \/ SaveMkdir
  \/ SaveStat
  \/ SaveOpen
  \/ SaveRead
  \/ SaveCloseRead
  \/ SaveOpenWrite
  \/ SaveWrite
  \/ SaveFinally

SpecSave == Init /\ [][NextSave]_vars

(***************************************************************************)
(* The operations that open file handles, saveDataToFile and the disk part *)
(* of log: a run is made of overlapping saves or of overlapping log calls. *)
(***************************************************************************)
HandlesSaveBegin == calls = 0 /\ SaveBegin

HandlesLog == saves = <<>> /\ done = <<>> /\ DiskLog

NextHandles ==
  \/ HandlesSaveBegin
  \/ SaveAccess
  \/ SaveMkdir
  \/ SaveStat
  \/ SaveOpen
  \/ SaveRead
  \/ SaveCloseRead
  \/ SaveOpenWrite
  \/ SaveWrite
  \/ SaveFinally
  \/ HandlesLog
  \/ DispatchEnd
  \/ DiskStat
  \/ DiskUnlinkOldest
  \/ DiskShift
  \/ DiskRenameCurrent
  \/ DiskMkdir
  \/ DiskOpen
  \/ DiskWrite
  \/ DiskClose

SpecHandles == Init /\ [][NextHandles]_vars

(***************************************************************************)
(* sanitizeFilename on its own: one call with a name drawn from the        *)
(* strings over the alphabet and the space.                                *)
(***************************************************************************)
SanitizeInputs == UNION {[1..k -> Chars \cup {" "}] : k \in 0..MaxNameLen}

Sanitize ==
  /\ op = "none"
  /\ \E name \in SanitizeInputs :
       /\ op' = "sanitize"
       /\ fileName' = name
       /\ result' = sanitizeFilename(name)
  /\ UNCHANGED <<SAFE_DIRECTORIES, dirs, category, logVars, storeVars, restVars>>

NextSanitize == Sanitize

SpecSanitize == Init /\ [][NextSanitize]_vars

(***************************************************************************)
(* Properties of the path resolver (under SpecPath).                       *)
(***************************************************************************)
\* p is the base directory or a path below it: the base, a separator, and
\* segments none of which is empty, "." or "..".
UnderBase(p) ==
  \/ p = BASE_DIRECTORY
  \/ /\ Len(p) > Len(BASE_DIRECTORY) + 1
     /\ SubSeq(p, 1, Len(BASE_DIRECTORY)) = BASE_DIRECTORY
     /\ p[Len(BASE_DIRECTORY) + 1] = "/"
     /\ LET segs == Split(SubSeq(p, Len(BASE_DIRECTORY) + 2, Len(p)), {"/"})
        IN \A i \in 1..Len(segs) : segs[i] \notin {<<>>, <<".">>, <<".", ".">>}

\* C1: whenever getSafeCategoryPath or getSafeFilePath returns a path, for any
\* category, any fileName and any registry reachable through
\* registerSafeDirectory/createFolder, the path is the base directory or lies
\* below it at a separator boundary.
C1_ResolvedUnderBase ==
  (op \in {"category", "file"} /\ result # NULL) => UnderBase(result)

\* A file path returned in a category that createFolder registered.
C1_Witness ==
  /\ op = "file"
  /\ result # NULL
  /\ result # BASE_DIRECTORY
  /\ category \in DOMAIN SAFE_DIRECTORIES
  /\ category \notin LoadTimeCategories

Segments(s) == Split(s, {"/", "\\"})

HasBadSegment(s) ==
  \E i \in 1..Len(Segments(s)) :
    LET seg == Segments(s)[i]
    IN \/ seg \in {<<>>, <<".">>, <<".", ".">>}
       \/ \E j \in 1..Len(seg) : seg[j] \in FORBIDDEN_CHARS

\* C2: getSafeFilePath returns no path when the category (if one is given) or
\* the fileName has a "..", "." or empty segment or a forbidden character.
C2_TraversalRejected ==
  (op = "file" /\ ((category # <<>> /\ HasBadSegment(category)) \/ HasBadSegment(fileName)))
    => result = NULL

\* A registered category with a fileName "../<good name>" that is refused.
C2_Witness ==
  /\ op = "file"
  /\ category \in DOMAIN SAFE_DIRECTORIES
  /\ Len(fileName) >= 4
  /\ SubSeq(fileName, 1, 3) = <<".", ".", "/">>
  /\ ~HasBadSegment(SubSeq(fileName, 4, Len(fileName)))
  /\ result = NULL

(***************************************************************************)
(* Properties of the log buffer and its listeners (under Spec).            *)
(***************************************************************************)
Min(a, b) == IF a < b THEN a ELSE b

\* C3: the buffer never holds more than LOG_LIMIT entries, and it holds the
\* entries accepted last, in the order they were accepted: once it is full,
\* an accepted append drops the oldest entry and puts the new one at the end.
C3_RingBuffer ==
  /\ Len(entries) = Min(accepted, LOG_LIMIT)
  /\ \A i \in 1..Len(entries) : entries[i].id = accepted - Len(entries) + i

\* One more entry accepted than the buffer holds: entry 1 is gone.
C3_Witness ==
  /\ accepted = LOG_LIMIT + 1
  /\ Len(entries) = LOG_LIMIT
  /\ entries[1].id = 2
  /\ entries[LOG_LIMIT].id = LOG_LIMIT + 1

\* C4: a callback whose remove function was called is never invoked with an
\* entry accepted after that call, whatever log calls are still at their disk
\* part; the listener GET /logs/live removes on close does not get the
\* "Client disconnected" entry.
C4_NoDeliveryAfterUnsubscribe ==
  \A l \in ListenerIds :
    unsubscribedAt[l] # -1 =>
      \A i \in 1..Len(delivered[l]) : delivered[l][i].id <= unsubscribedAt[l]

\* A callback that was invoked, then removed; an entry accepted afterwards has
\* been dispatched while an earlier log call was still at its disk part.
C4_Witness ==
  \E l \in ListenerIds :
    /\ unsubscribedAt[l] # -1
    /\ delivered[l] # <<>>
    /\ lastDispatch.entry.id > unsubscribedAt[l]
    /\ Len(procs) = 2

\* The ids of the entries the buffer holds when s entries were accepted.
BufferedAt(s) == [i \in 1..Min(s, LOG_LIMIT) |-> s - Min(s, LOG_LIMIT) + i]

\* C5, as stated: a callback added when s entries were accepted is invoked
\* with the entries the buffer holds, in buffer order, before anything else.
C5_ReplayOnSubscribe ==
  \A l \in ListenerIds :
    subscribedAt[l] # -1 =>
      /\ Len(delivered[l]) >= Len(BufferedAt(subscribedAt[l]))
      /\ \A i \in 1..Len(BufferedAt(subscribedAt[l])) :
           delivered[l][i].id = BufferedAt(subscribedAt[l])[i]

\* C5, amended: addListener and GET /logs/live replay nothing: a callback is
\* invoked only with entries accepted after it was added.
C5_OnlyNewEntries ==
  \A l \in ListenerIds :
    \A i \in 1..Len(delivered[l]) : delivered[l][i].id > subscribedAt[l]

\* A callback added when the buffer held entries, and invoked since.
C5_Witness ==
  \E l \in ListenerIds :
    /\ subscribedAt[l] > 0
    /\ entries # <<>>
    /\ delivered[l] # <<>>

\* C6, as stated: every callback is invoked with the entries in the order
\* they entered the buffer.
C6_DeliveryInAppendOrder ==
  \A l \in ListenerIds :
    \A i, j \in 1..Len(delivered[l]) :
      i < j => delivered[l][i].id < delivered[l][j].id

Occurrences(seq, x) == Cardinality({i \in 1..Len(seq) : seq[i] = x})

\* C7: when a callback throws during the dispatch of an entry, the dispatch
\* still comes to its end with every callback that was registered when it
\* began invoked with the entry exactly once, and the entry is in the buffer.
\* (Dispatches in which a callback calls back into the logger are left out.)
C7_ThrowingListenerIsolated ==
  (lastDispatch.threw # {} /\ lastDispatch.quiet) =>
    /\ \A i \in 1..Len(lastDispatch.start) :
         Occurrences(delivered[lastDispatch.start[i]], lastDispatch.entry) = 1
    /\ lastDispatch.entry.id > accepted - LOG_LIMIT =>
         \E i \in 1..Len(entries) : entries[i] = lastDispatch.entry

\* The first of two callbacks threw, the second was invoked, the log call
\* went on to its disk part.
C7_Witness ==
  /\ lastDispatch.threw = {1}
  /\ lastDispatch.quiet
  /\ Len(lastDispatch.start) = 2
  /\ Occurrences(delivered[lastDispatch.start[2]], lastDispatch.entry) = 1
  /\ \E p \in 1..Len(procs) : procs[p].entry = lastDispatch.entry

(***************************************************************************)
(* Properties of the level filter (under SpecLevel).                       *)
(***************************************************************************)
\* C8: a log call whose level is numerically above (less severe than) the
\* configured level changes nothing: buffer, files, the calls at their disk
\* part, and no callback is invoked. Any other call puts its entry at the end
\* of the buffer and starts its dispatch to the registered callbacks; the
\* dispatch invokes each of them with the entry, and a disk part that
\* overlaps no other ends with the entry at the end of server.log.
C8_LevelFilter ==
  [][/\ calls' # calls =>
          IF LOG_LEVELS[lastCall'.level] > LOG_LEVELS[lastCall'.min]
            THEN /\ lastCall'.id = 0
                 /\ UNCHANGED <<entries, files, procs, stack, delivered, accepted>>
            ELSE /\ lastCall'.id = accepted + 1
                 /\ entries' # <<>>
                 /\ entries'[Len(entries')].id = lastCall'.id
                 /\ entries'[Len(entries')].level = lastCall'.level
                 /\ Len(stack') = Len(stack) + 1
                 /\ stack'[Len(stack')].entry = entries'[Len(entries')]
                 /\ stack'[Len(stack')].k = 0
                 /\ stack'[Len(stack')].start = listeners
     /\ lastDispatch' # lastDispatch =>
          /\ \A i \in 1..Len(lastDispatch'.start) :
               Occurrences(delivered'[lastDispatch'.start[i]], lastDispatch'.entry) = 1
          /\ \E p \in 1..Len(procs') : procs'[p].entry = lastDispatch'.entry
     /\ (lastDone' # lastDone /\ lastDone'.entry # NoEntry /\ lastDone'.alone) =>
          /\ 0 \in DOMAIN files'
          /\ files'[0] # <<>>
          /\ files'[0][Len(files'[0])] = lastDone'.entry
    ]_vars

\* A call was discarded when the buffer, a callback and server.log were there
\* to be changed.
C8_Witness ==
  /\ lastCall.n > 0
  /\ lastCall.id = 0
  /\ lastCall.level \in {"WARNING", "INFO", "DEBUG"}
  /\ entries # <<>>
  /\ listeners # <<>>
  /\ 0 \in DOMAIN files
  /\ files[0] # <<>>

(***************************************************************************)
(* Properties of the rotation (under SpecDisk).                            *)
(***************************************************************************)
AtOrAboveLimit(fs) == 0 \in DOMAIN fs /\ FileSize(fs[0]) >= LOG_FILE_MAX_SIZE

Backups(fs) == [n \in DOMAIN fs \ {0} |-> fs[n]]

CurrentOf(fs) == IF 0 \in DOMAIN fs THEN fs[0] ELSE <<>>

\* C9: a log call that overlaps no other and meets no failure, and finds
\* server.log at or above LOG_FILE_MAX_SIZE, ends with server.log.1 holding
\* what server.log held and server.log holding its entry only; if it finds
\* server.log below the limit (or absent) no backup changes and the entry is
\* appended to server.log.
C9_RotationBeforeWrite ==
  (lastDone.entry # NoEntry /\ lastDone.alone /\ ~lastDone.failed) =>
    IF AtOrAboveLimit(lastDone.before)
      THEN /\ {0, 1} \subseteq DOMAIN files
           /\ files[1] = lastDone.before[0]
           /\ files[0] = <<lastDone.entry>>
      ELSE /\ 0 \in DOMAIN files
           /\ files[0] = Append(CurrentOf(lastDone.before), lastDone.entry)
           /\ Backups(files) = Backups(lastDone.before)

\* A call on its own has rotated a full server.log.
C9_Witness ==
  /\ lastDone.entry # NoEntry
  /\ lastDone.alone
  /\ ~lastDone.failed
  /\ AtOrAboveLimit(lastDone.before)
  /\ files[1] = lastDone.before[0]
  /\ files[0] = <<lastDone.entry>>

Ids(lines) == {lines[i].id : i \in 1..Len(lines)}

\* C10: as long as no two log calls overlapped and nothing failed, the files
\* are server.log and backups 1..ROTATION_COUNT only, a file with a lower
\* suffix holds later entries than a file with a higher one, a log call that
\* rotated has moved every backup i < ROTATION_COUNT to i + 1 and left nothing
\* of backup ROTATION_COUNT, and after ROTATION_COUNT + 1 rotations the entry
\* archived first is in no file.
C10_BackupSuffixes ==
  clean =>
    /\ DOMAIN files \subseteq 0..ROTATION_COUNT
    /\ \A i, j \in DOMAIN files :
         i < j => \A a \in Ids(files[i]), b \in Ids(files[j]) : a > b
    /\ (lastDone.entry # NoEntry /\ AtOrAboveLimit(lastDone.before)) =>
         /\ \A i \in 1..(ROTATION_COUNT - 1) :
              IF i \in DOMAIN lastDone.before
                THEN (i + 1) \in DOMAIN files /\ files[i + 1] = lastDone.before[i]
              ELSE (i + 1) \notin DOMAIN files
         /\ ROTATION_COUNT \in DOMAIN lastDone.before =>
              \A n \in DOMAIN files :
                Ids(files[n]) \cap Ids(lastDone.before[ROTATION_COUNT]) = {}
    /\ rotations >= ROTATION_COUNT + 1 => \A n \in DOMAIN files : 1 \notin Ids(files[n])

\* ROTATION_COUNT + 1 rotations, one call after the other: every suffix is in
\* use and the first entry is gone.
C10_Witness ==
  /\ clean
  /\ rotations = ROTATION_COUNT + 1
  /\ lastDone.entry # NoEntry
  /\ DOMAIN files = 0..ROTATION_COUNT
  /\ \A n \in DOMAIN files : 1 \notin Ids(files[n])

(***************************************************************************)
(* Properties of the failing file system operations (under SpecFail).      *)
(***************************************************************************)
\* The entry went through addToBuffer: it was pushed onto the buffer (and is
\* there unless LOG_LIMIT later entries pushed it out) and every callback
\* registered before it was accepted has been invoked with it once.
WentThroughBuffer(e) ==
  /\ e.id <= accepted
  /\ e.id > accepted - LOG_LIMIT => \E i \in 1..Len(entries) : entries[i] = e
  /\ \A l \in ListenerIds :
       (subscribedAt[l] # -1 /\ subscribedAt[l] < e.id /\ unsubscribedAt[l] = -1)
         => Occurrences(delivered[l], e) = 1

\* The path a recorded call addresses with (cat, file).
CallPath(call) == getSafeFilePath(call.before.safeDirs, call.cat, call.file, call.dangerous)

\* C12: a getFile with raw = true and a category given that meets no file
\* system failure, made on a path where the last call that addressed it was a
\* successful save of a Buffer in overwrite mode, returns success with
\* exactly the saved bytes.
C12_RoundTrip ==
  (/\ lastStoreOp.name = "getFile"
   /\ lastStoreOp.cat # <<>>
   /\ lastStoreOp.raw
   /\ lastStoreOp.fail = "none"
   /\ CallPath(lastStoreOp) \in DOMAIN savedBytes)
  => /\ lastStoreOp.res.success
     /\ lastStoreOp.res.content = BufferOf(savedBytes[CallPath(lastStoreOp)])

C12_Witness ==
  /\ lastStoreOp.name = "getFile"
  /\ lastStoreOp.cat # <<>>
  /\ lastStoreOp.raw
  /\ lastStoreOp.fail = "none"
  /\ CallPath(lastStoreOp) \in DOMAIN savedBytes
  /\ savedBytes[CallPath(lastStoreOp)] = <<200>>
  /\ lastStoreOp.res.content = BufferOf(<<200>>)

\* The path a recorded saveDataToFile call writes to.
SavePath(call) ==
  getSafeFilePath(call.before.safeDirs, call.cat,
                  IF call.sanitize THEN sanitizeFilename(call.file) ELSE call.file, FALSE)

\* A recorded saveDataToFile call with all its parameters given, whose path
\* resolves to something that exists.
SaveOnExisting(call) ==
  /\ call.name = "saveDataToFile"
  /\ call.cat # <<>> /\ call.file # <<>> /\ Truthy(call.data)
  /\ SavePath(call) # NULL
  /\ SavePath(call) \in DOMAIN call.before.store \cup call.before.dirs

\* C13: a save on an existing target with overwrite === false and without
\* append returns code 409 and changes no file; with overwrite at its default
\* or with append the result is never 409.
C13_ConflictOnExisting ==
  SaveOnExisting(lastStoreOp) =>
    IF lastStoreOp.overwriteFalse /\ ~lastStoreOp.append
      THEN /\ ~lastStoreOp.res.success
           /\ lastStoreOp.res.code = 409
           /\ store = lastStoreOp.before.store
      ELSE lastStoreOp.res.code # 409

C13_Witness ==
  /\ SaveOnExisting(lastStoreOp)
  /\ lastStoreOp.overwriteFalse /\ ~lastStoreOp.append
  /\ SavePath(lastStoreOp) \in DOMAIN store
  /\ lastStoreOp.res.code = 409

\* The source and the target path of a recorded copyFile or moveFile call.
SourcePath(call) == getSafeFilePath(call.before.safeDirs, call.cat, call.file, FALSE)

TargetPath(call) == TargetPathOf(call.before.safeDirs, call.file, call.tcat, call.tfile)

\* C14: a moveFile that returns an error has deleted nothing; one that
\* returns success with partialSuccess names both paths and leaves both files
\* in place; one that returns success without partialSuccess leaves the target
\* in place and the source gone.
C14_MoveOutcomes ==
  lastStoreOp.name = "moveFile" =>
    IF ~lastStoreOp.res.success
      THEN store = lastStoreOp.before.store
    ELSE IF lastStoreOp.res.partialSuccess
      THEN /\ lastStoreOp.res.sourcePath # NULL
           /\ lastStoreOp.res.targetPath # NULL
           /\ SourcePath(lastStoreOp) \in DOMAIN store
           /\ TargetPath(lastStoreOp) \in DOMAIN store
    ELSE /\ TargetPath(lastStoreOp) \in DOMAIN store
         /\ SourcePath(lastStoreOp) \notin DOMAIN store

\* The codes of the { error, code } results.
ErrorCodes == {400, 404, 409, 413, 500}

\* C15: every fileUtils call returns instead of throwing, whatever its
\* arguments and whichever file system call fails, and what it returns is
\* either a success payload or an error with one of the five codes.
C15_StructuredResults ==
  lastStoreOp.name # "none" =>
    /\ ~lastStoreOp.res.threw
    /\ \/ lastStoreOp.res.success /\ lastStoreOp.res.code = 0
       \/ ~lastStoreOp.res.success /\ lastStoreOp.res.code \in ErrorCodes

C15_Witness ==
  /\ lastStoreOp.name = "saveDataToFile"
  /\ lastStoreOp.fail = "write"
  /\ ~lastStoreOp.res.success
  /\ lastStoreOp.res.code = 500
  /\ ~lastStoreOp.res.threw

\* A recorded call addressed with an empty category whose other arguments
\* are in order: the name resolves below the base root and the data is given.
EmptyCategoryCall(call) ==
  \/ call.name = "getFiles" /\ call.cat = <<>>
  \/ /\ call.name \in {"getFile", "deleteFile"}
     /\ call.cat = <<>>
     /\ CallPath(call) # NULL
  \/ /\ call.name = "saveDataToFile"
     /\ call.cat = <<>>
     /\ SavePath(call) # NULL
     /\ Truthy(call.data)
  \/ /\ call.name = "copyFile"
     /\ call.cat = <<>> \/ call.tcat = <<>>
     /\ SourcePath(call) # NULL
     /\ TargetPath(call) # NULL

\* C16: a list, get, save, delete or copy addressed with an empty category
\* is carried out on the base root: it is not rejected as invalid input (400).
C16_EmptyCategoryIsBaseRoot ==
  EmptyCategoryCall(lastStoreOp) => lastStoreOp.res.code # 400

\* The folder a recorded createFolder call makes.
FolderPath(call) ==
  pathJoin(getSafeCategoryPath(call.before.safeDirs, call.cat), sanitizeFilename(call.file))

\* C17: after createFolder returned success with path P the folder is on
\* disk, P is a registered category and getSafeCategoryPath(P) is the folder;
\* after it returned 409 the registry is what it was.
C17_CreatedFolderRegistered ==
  lastStoreOp.name = "createFolder" =>
    /\ lastStoreOp.res.success =>
         /\ FolderPath(lastStoreOp) \in dirs
         /\ lastStoreOp.res.path \in DOMAIN SAFE_DIRECTORIES
         /\ getSafeCategoryPath(SAFE_DIRECTORIES, lastStoreOp.res.path) = FolderPath(lastStoreOp)
    /\ lastStoreOp.res.code = 409 => SAFE_DIRECTORIES = lastStoreOp.before.safeDirs

\* The defined levels a name spells, whatever the case of its letters.
LevelsSpelled(arg) == {l \in LevelNames : toLowerCase(LevelKeys[l]) = toLowerCase(arg)}

\* The configured minimum after setLogLevel(arg) was called with `before` configured.
MinimumAfter(arg, before) ==
  IF LevelsSpelled(arg) = {} THEN before ELSE CHOOSE l \in LevelsSpelled(arg) : TRUE

\* C18: after setLogLevel with a name that spells no defined level the
\* configured minimum is what it was before the call, after setLogLevel with
\* a name that spells a defined level in any letter case it is that level;
\* every later log call is accepted or discarded against that minimum.
C18_SetLogLevel ==
  lastSetLevel.n > 0 =>
    \A minimum \in {MinimumAfter(lastSetLevel.arg, lastSetLevel.before)} :
      /\ CURRENT_LOG_LEVEL = minimum
      /\ lastCall.n >= lastSetLevel.n =>
           /\ lastCall.min = minimum
           /\ lastCall.id = 0 <=> LOG_LEVELS[lastCall.level] > LOG_LEVELS[minimum]

C18_Witness ==
  /\ lastSetLevel.n > 0
  /\ lastSetLevel.arg = InvalidLevel
  /\ lastSetLevel.before = "ERROR"
  /\ CURRENT_LOG_LEVEL = "ERROR"
  /\ lastCall.n > lastSetLevel.n
  /\ lastCall.level = "INFO"
  /\ lastCall.id = 0

\* C19: getLogs with a missing or defined level returns, in the order of the
\* buffer, the entries at or above that level in severity whose message or
\* error message contains the search text whatever the letter case, cut to
\* the last `limit` of them when limit > 0, and leaves the buffer as it is.
C19_GetLogs ==
  (/\ lastQuery.kind = "getLogs"
   /\ lastQuery.level = <<>> \/ LevelsSpelled(lastQuery.level) # {})
  => LET Wanted(entry) ==
           /\ \A l \in LevelsSpelled(lastQuery.level) : LOG_LEVELS[entry.level] <= LOG_LEVELS[l]
           /\ \/ lastQuery.search = <<>>
              \/ includes(toLowerCase(entry.message), toLowerCase(lastQuery.search))
              \/ /\ entry.error.present
                 /\ entry.error.hasMessage
                 /\ includes(toLowerCase(entry.error.message), toLowerCase(lastQuery.search))
         wanted == SelectSeq(lastQuery.input, Wanted)
     IN /\ ~lastQuery.threw
        /\ lastQuery.logs =
             IF lastQuery.limit > 0 /\ Len(wanted) > lastQuery.limit
               THEN SubSeq(wanted, Len(wanted) - lastQuery.limit + 1, Len(wanted))
             ELSE wanted
        /\ entries = lastQuery.input

\* C20: the callback of a live stream opened with a defined level L writes
\* an entry to the client exactly if the entry is at or above L in severity,
\* as the level filter of getLogs selects it.
C20_LiveLevelFilter ==
  (/\ lastQuery.kind = "live"
   /\ lastQuery.search = <<>>
   /\ LevelsSpelled(lastQuery.level) # {})
  => lastQuery.logs = filterByLevel(lastQuery.input, lastQuery.level)

\* C11: whatever file system operation of an accepted log call fails (the
\* size check, the unlink or a rename of the rotation, mkdir, open, write,
\* close), the promise log returned resolves and does not reject, and the
\* entry was in the buffer and dispatched to the listeners before the disk
\* part began.
C11_FailuresSwallowed ==
  /\ \A p \in 1..Len(procs) : WentThroughBuffer(procs[p].entry)
  /\ lastDone.entry # NoEntry =>
       /\ ~lastDone.rejected
       /\ WentThroughBuffer(lastDone.entry)

\* A log call ended after a failure that left its entry out of every file; a
\* callback had been invoked with the entry.
C11_Witness ==
  /\ lastDone.entry # NoEntry
  /\ lastDone.failed
  /\ ~lastDone.rejected
  /\ \A n \in DOMAIN files : lastDone.entry.id \notin Ids(files[n])
  /\ \E l \in ListenerIds : Occurrences(delivered[l], lastDone.entry) = 1

\* C30: after a moveFile of an existing source file returns, with success,
\* partial success or an error, the content the source file had before the
\* call is stored at the source path or at the target path.
C30_MoveKeepsData ==
  (/\ lastStoreOp.name = "moveFile"
   /\ SourcePath(lastStoreOp) # NULL
   /\ SourcePath(lastStoreOp) \in DOMAIN lastStoreOp.before.store)
  => LET content == lastStoreOp.before.store[SourcePath(lastStoreOp)]
     IN \/ /\ SourcePath(lastStoreOp) \in DOMAIN store
           /\ store[SourcePath(lastStoreOp)] = content
        \/ /\ TargetPath(lastStoreOp) # NULL
           /\ TargetPath(lastStoreOp) \in DOMAIN store
           /\ store[TargetPath(lastStoreOp)] = content

\* C25: SUCCESS is outside the chain ERROR < WARNING < INFO < DEBUG: a log
\* call at SUCCESS made while the configured minimum level is one of the
\* chain's levels is accepted, wherever in the chain the minimum sits.
C25_SuccessOwnTier ==
  (/\ lastCall.n > 0
   /\ lastCall.level = "SUCCESS"
   /\ lastCall.min \in {"ERROR", "WARNING", "INFO", "DEBUG"})
  => lastCall.id # 0

\* C27: for every name, sanitizeFilename returns a name without a forbidden
\* character, without a path separator and without a leading or trailing
\* dot or space; a result that is not empty passes validatePath, and
\* sanitizing the result again returns it unchanged.
C27_SanitizedIsClean ==
  op = "sanitize" =>
    /\ \A i \in 1..Len(result) : result[i] \notin FORBIDDEN_CHARS \cup {"/", "\\"}
    /\ result # <<>> => /\ result[1] \notin {".", " "}
                        /\ result[Len(result)] \notin {".", " "}
                        /\ validatePath(result)
    /\ sanitizeFilename(result) = result

\* The callbacks in the listener array.
Registered(lstn) == {lstn[i] : i \in 1..Len(lstn)}

\* C28: when the dispatch of an entry ends, every listener that was
\* registered when the dispatch began and is still registered when it ends
\* was invoked with the entry exactly once, whatever the callbacks
\* unsubscribed in between.
C28_UnsubscribeDuringDispatch ==
  [][lastDispatch' # lastDispatch =>
       \A l \in Registered(lastDispatch'.start) \cap Registered(listeners) :
         Occurrences(delivered'[l], lastDispatch'.entry) = 1]_vars

\* C26: no listener whose stream has terminated (the client of /logs/live
\* disconnected, the Readable of createLogStream ended or was destroyed) is
\* in the listener array.
C26_TerminatedStreamUnsubscribed ==
  \A l \in ListenerIds :
    streams[l] \in {"closed", "ended", "destroyed"} => l \notin Registered(listeners)

\* C29: a log call that found server.log at or above the threshold and has
\* completed, overlapped or not, with or without a failed rename: if some
\* backup was dropped or shifted since the call read the size, then
\* server.log.1 holds what server.log held, and every backup i below
\* ROTATION_COUNT the call found is one suffix up, shifted once and not
\* dropped.
C29_RotationArchivesCurrent ==
  (/\ lastDone.entry # NoEntry
   /\ AtOrAboveLimit(lastDone.before)
   /\ Backups(files) # Backups(lastDone.before))
  => /\ 1 \in DOMAIN files
     /\ Ids(lastDone.before[0]) \subseteq Ids(files[1])
     /\ \A i \in 1..(ROTATION_COUNT - 1) :
          i \in DOMAIN lastDone.before =>
            /\ (i + 1) \in DOMAIN files
            /\ Ids(lastDone.before[i]) \subseteq Ids(files[i + 1])

\* C24: a saveDataToFile of valid data to a valid category and a valid nested
\* fileName whose directory does not exist yet under the category, with no
\* file system failure, creates the directory and succeeds: the file is
\* stored below the new directory.
C24_ParentDirectoryEnsured ==
  (/\ lastStoreOp.name = "saveDataToFile"
   /\ lastStoreOp.cat # <<>>
   /\ ~lastStoreOp.sanitize
   /\ lastStoreOp.fail = "none"
   /\ Truthy(lastStoreOp.data)
   /\ Len(contentToWrite(lastStoreOp.data)) <= FILE_SIZE_LIMIT
   /\ \E i \in 1..Len(lastStoreOp.file) : lastStoreOp.file[i] = "/"
   /\ SavePath(lastStoreOp) # NULL
   /\ Dirname(SavePath(lastStoreOp)) \notin lastStoreOp.before.dirs
   /\ \A q \in WithAncestors(Dirname(SavePath(lastStoreOp))) :
        q \notin DOMAIN lastStoreOp.before.store)
  => /\ lastStoreOp.res.success
     /\ Dirname(SavePath(lastStoreOp)) \in dirs
     /\ SavePath(lastStoreOp) \in DOMAIN store

\* The file the saves are made to, <<>> if there is none.
SavedContent == IF SaveFilePath \in DOMAIN store THEN store[SaveFilePath] ELSE <<>>

\* C21: when the two calls that returned last were overlapping saves in
\* overwrite mode that both succeeded, and no call is in progress, the file
\* holds exactly the data of the one that returned last.
C21_LastCompletedWriteWins ==
  (/\ saves = <<>>
   /\ Len(done) >= 2
   /\ \A i \in {Len(done) - 1, Len(done)} :
        done[i].code = 0 /\ ~done[i].append /\ done[i].overlapped)
  => SavedContent = done[Len(done)].content

\* C22: the file written through saveDataToFile never holds more than
\* FILE_SIZE_LIMIT bytes, whatever overwrite and append saves were made and
\* however they overlapped.
C22_SizeLimit == Len(SavedContent) <= FILE_SIZE_LIMIT

====
